---- MODULE Spec2Model ----
(***************************************************************************)
(* Model of the tingly-box request pipeline: the SQLite stats store        *)
(* (internal/config/stats_store.go), the HTTP handlers for                 *)
(* /v1/chat/completions and /v1/messages (internal/server), the Anthropic  *)
(* streaming handlers, the transport pool and the protocol conversions.    *)
(*                                                                         *)
(* Each subsystem has its own specification over the shared variables:     *)
(*   Spec          the stats store, one action per exported method         *)
(*   SpecScenario  the stats store driven through the window scenario      *)
(*   SpecConc      RecordUsage split at its lock / read / save steps       *)
(*   SpecHTTP      the non-streaming and dispatch part of the handlers     *)
(*   SpecStream    handleAnthropicStreamResponseV1 / ...Beta, step by step *)
(*   SpecPool      TransportPool.GetTransport and Clear, step by step      *)
(*   SpecConv      the OpenAI-to-Anthropic stream conversion               *)
(*   SpecFn        the pure conversion functions applied to small inputs   *)
(***************************************************************************)
EXTENDS Integers, Sequences, FiniteSets, TLC

(***************************************************************************)
(* Bounds of the model                                                     *)
(***************************************************************************)
MaxNow == 90
MaxOps == 3
MaxTokens == 1

(***************************************************************************)
(* Program constants                                                       *)
(***************************************************************************)
defaultServiceTimeWindow == 300

(* time.Time{}: the zero time, for which IsZero() is true.  Every clock    *)
(* reading is >= 0, so the zero time lies before all of them.              *)
ZeroTime == -1

VARIABLES
    now,        \* the wall clock read by time.Now(), in seconds
    db,         \* table service_stats: key -> row, or NoRow
    svcStats,   \* Service.Stats of each service of each rule (in memory)
    ret,        \* what the store call that just returned did
    ops,        \* number of calls made so far (bounded by MaxOps)
    calls,      \* scenario log: the times of the RecordUsage calls on svcA
    mu,         \* ss.mu: the goroutine holding it, or Unlocked
    gor,        \* per goroutine: where it is in RecordUsage, and its locals
    serial,     \* the row after the calls saved so far, applied one by one
    cfg,        \* providers, the rule's routing data and the server flags
    http,       \* the request just handled and what the server did with it
    sh,         \* the streaming handler: its position, stream and client side
    tp,         \* the transport pool, its lock and the GetTransport calls
    cv,         \* the OpenAI-to-Anthropic stream conversion
    fn          \* a call of one of the conversion functions: input and result

concVars == <<mu, gor, serial>>

httpVars == <<cfg, http>>

auxVars == <<tp, cv, fn>>

otherVars == <<calls, concVars, httpVars, sh, auxVars>>

vars == <<now, db, svcStats, ret, ops, calls, mu, gor, serial, cfg, http, sh,
          tp, cv, fn>>

(***************************************************************************)
(* Configuration: one rule with two services.  svcA has time_window 60,    *)
(* svcB leaves it 0 (so the default applies).                              *)
(***************************************************************************)
svcA == [Provider |-> "p1", Model |-> "m1", TimeWindow |-> 60]
svcB == [Provider |-> "p2", Model |-> "m2", TimeWindow |-> 0]

Rules == << [UUID |-> "r1", Services |-> <<svcA, svcB>>] >>

ServiceRefs == { <<i, j>> : i \in 1..Len(Rules), j \in 1..2 }

ServiceAt(ref) == Rules[ref[1]].Services[ref[2]]

RuleUUIDOf(ref) == Rules[ref[1]].UUID

(* The primary key (rule_uuid, provider, model) of a service's row. *)
KeyOf(ref) == <<RuleUUIDOf(ref), ServiceAt(ref).Provider, ServiceAt(ref).Model>>

Keys == { KeyOf(ref) : ref \in ServiceRefs }

TokenVals == 0..MaxTokens

TickSteps == {30, 60}

NoRow == [ServiceID |-> "<none>"]

(* Service.ServiceID() *)
ServiceID(service) == <<service.Provider, service.Model>>

NoServiceID == <<>>

(* The zero value of ServiceStats / of the counters of a record. *)
ZeroStats ==
    [ServiceID |-> NoServiceID, RequestCount |-> 0, LastUsed |-> ZeroTime,
     WindowStart |-> ZeroTime, WindowRequestCount |-> 0,
     WindowTokensConsumed |-> 0, WindowInputTokens |-> 0,
     WindowOutputTokens |-> 0, TimeWindow |-> 0]

(* now.Sub(t) in seconds; from the zero time it saturates. *)
Forever == 1000000

Sub(a, b) == IF b = ZeroTime THEN Forever ELSE a - b

(* ServiceStatsRecord.toServiceStats: a field-by-field copy. *)
toServiceStats(record) ==
    [ServiceID |-> record.ServiceID, RequestCount |-> record.RequestCount,
     LastUsed |-> record.LastUsed, WindowStart |-> record.WindowStart,
     WindowRequestCount |-> record.WindowRequestCount,
     WindowTokensConsumed |-> record.WindowTokensConsumed,
     WindowInputTokens |-> record.WindowInputTokens,
     WindowOutputTokens |-> record.WindowOutputTokens,
     TimeWindow |-> record.TimeWindow]

(* ResetWindow that starts a new window on every call. *)
ResetWindowAlways(record, t) ==
    [record EXCEPT !.WindowStart = t, !.WindowRequestCount = 0,
                   !.WindowTokensConsumed = 0, !.WindowInputTokens = 0,
                   !.WindowOutputTokens = 0]

(* ResetWindow with > for >=: a window that is exactly time_window old is kept. *)
ResetWindowStrict(record, t) ==
    IF Sub(t, record.WindowStart) > record.TimeWindow
    THEN [record EXCEPT !.WindowStart = t, !.WindowRequestCount = 0,
                        !.WindowTokensConsumed = 0, !.WindowInputTokens = 0,
                        !.WindowOutputTokens = 0]
    ELSE record

(* ResetWindow that also clears the cumulative request count. *)
ResetWindowAll(record, t) ==
    IF Sub(t, record.WindowStart) >= record.TimeWindow
    THEN [record EXCEPT !.WindowStart = t, !.WindowRequestCount = 0,
                        !.WindowTokensConsumed = 0, !.WindowInputTokens = 0,
                        !.WindowOutputTokens = 0, !.RequestCount = 0]
    ELSE record

(* The window check and reset of RecordUsage. *)
ResetWindow(record, t) ==
    IF Sub(t, record.WindowStart) >= record.TimeWindow
    THEN [record EXCEPT !.WindowStart = t, !.WindowRequestCount = 0,
                        !.WindowTokensConsumed = 0, !.WindowInputTokens = 0,
                        !.WindowOutputTokens = 0]
    ELSE record

(* AddUsage that takes the tokens off the window's counters. *)
AddUsageSubtracting(record, t, inputTokens, outputTokens) ==
    [record EXCEPT !.RequestCount = @ + 1,
                   !.WindowRequestCount = @ + 1,
                   !.WindowInputTokens = @ - inputTokens,
                   !.WindowOutputTokens = @ - outputTokens,
                   !.WindowTokensConsumed = @ - (inputTokens + outputTokens),
                   !.LastUsed = t]

(* AddUsage that adds only the input tokens to the window total. *)
AddUsageInputOnly(record, t, inputTokens, outputTokens) ==
    [record EXCEPT !.RequestCount = @ + 1,
                   !.WindowRequestCount = @ + 1,
                   !.WindowInputTokens = @ + inputTokens,
                   !.WindowOutputTokens = @ + outputTokens,
                   !.WindowTokensConsumed = @ + inputTokens,
                   !.LastUsed = t]

(* The counter updates of RecordUsage. *)
AddUsage(record, t, inputTokens, outputTokens) ==
    [record EXCEPT !.RequestCount = @ + 1,
                   !.WindowRequestCount = @ + 1,
                   !.WindowInputTokens = @ + inputTokens,
                   !.WindowOutputTokens = @ + outputTokens,
                   !.WindowTokensConsumed = @ + (inputTokens + outputTokens),
                   !.LastUsed = t]

(* A new record that takes the service's time window as it is. *)
NewRecordNoDefault(service, t) ==
    [ZeroStats EXCEPT !.ServiceID = ServiceID(service),
                      !.TimeWindow = service.TimeWindow,
                      !.WindowStart = t]

(* The record RecordUsage creates when the lookup finds none. *)
NewRecord(service, t) ==
    [ZeroStats EXCEPT !.ServiceID = ServiceID(service),
                      !.TimeWindow = IF service.TimeWindow > 0
                                     THEN service.TimeWindow
                                     ELSE defaultServiceTimeWindow,
                      !.WindowStart = t]

(* The record RecordUsage saves: lookup or create (clock read t1), then    *)
(* reset and add (clock read t2).                                          *)
UpdatedRecord(found, service, t1, t2, inputTokens, outputTokens) ==
    LET record == IF found = NoRow THEN NewRecord(service, t1) ELSE found
    IN AddUsage(ResetWindow(record, t2), t2, inputTokens, outputTokens)

DBErrors == {"none", "lookup", "save"}

NoRet == [op |-> "none"]

(* ss.mu.Lock() ... defer ss.mu.Unlock() surrounds each whole method, so   *)
(* in Spec each method is one step (the two clock reads of RecordUsage     *)
(* then see the same time).  SpecConc below models the lock and the steps  *)
(* inside it.                                                              *)

(* A save whose failure leaves the new record behind all the same. *)
SavedTableDespiteError(d, k, record, dbErr) ==
    IF dbErr = "lookup" THEN d ELSE [d EXCEPT ![k] = record]

(* The table after RecordUsage: the record is written by the one db.Save   *)
(* at the end, reached only when the lookup did not fail; a Save that      *)
(* fails writes nothing.                                                   *)
SavedTable(d, k, record, dbErr) ==
    IF dbErr = "none" THEN [d EXCEPT ![k] = record] ELSE d

(* StatsStore.RecordUsage: the effect on the table and the result. *)
RecordUsageStep(ref, inputTokens, outputTokens, dbErr) ==
    LET k == KeyOf(ref)
        record == UpdatedRecord(db[k], ServiceAt(ref), now, now,
                                inputTokens, outputTokens)
    IN /\ ops < MaxOps
       /\ ops' = ops + 1
       /\ db' = SavedTable(db, k, record, dbErr)
       /\ IF dbErr = "none"
          THEN /\ ret' = [op |-> "RecordUsage", key |-> k, in |-> inputTokens,
                          out |-> outputTokens, pre |-> db[k], table |-> db,
                          stats |-> toServiceStats(record), err |-> FALSE]
          ELSE /\ ret' = [op |-> "RecordUsage", key |-> k, in |-> inputTokens,
                          out |-> outputTokens, pre |-> db[k], table |-> db,
                          stats |-> ZeroStats, err |-> TRUE]
       /\ UNCHANGED <<now, svcStats>>

RecordUsage(ref, inputTokens, outputTokens, dbErr) ==
    /\ RecordUsageStep(ref, inputTokens, outputTokens, dbErr)
    /\ UNCHANGED otherVars

(* RecordUsage(ruleUUID, nil, ...): returns the zero stats and no error. *)
RecordUsageNil ==
    /\ ops < MaxOps
    /\ ops' = ops + 1
    /\ ret' = [op |-> "RecordUsage", key |-> <<>>, stats |-> ZeroStats, err |-> FALSE]
    /\ UNCHANGED <<now, db, svcStats>>
    /\ UNCHANGED otherVars

(* Service.InitializeStats: attaches stats to a service that has none. *)
InitializeStats(service, stats, t) ==
    IF stats.ServiceID = NoServiceID
    THEN [ZeroStats EXCEPT !.ServiceID = ServiceID(service),
                           !.TimeWindow = service.TimeWindow,
                           !.WindowStart = t]
    ELSE stats

(* Defaults that leave a time window of 0 as it is. *)
NormalizeKeepsZero(record, service, t) ==
    [record EXCEPT
        !.ServiceID = IF @ = NoServiceID THEN ServiceID(service) ELSE @,
        !.WindowStart = IF @ = ZeroTime THEN t ELSE @]

(* The defaults UpsertFromService and HydrateRules fill in. *)
Normalize(record, service, t) ==
    [record EXCEPT
        !.TimeWindow = IF @ = 0
                       THEN IF service.TimeWindow > 0 THEN service.TimeWindow
                            ELSE defaultServiceTimeWindow
                       ELSE @,
        !.ServiceID = IF @ = NoServiceID THEN ServiceID(service) ELSE @,
        !.WindowStart = IF @ = ZeroTime THEN t ELSE @]

(* StatsStore.UpsertFromService *)
UpsertFromService(ref, saveFails) ==
    LET k == KeyOf(ref)
        stat == InitializeStats(ServiceAt(ref), svcStats[k], now)
        record == Normalize(stat, ServiceAt(ref), now)
    IN /\ ops < MaxOps
       /\ ops' = ops + 1
       /\ svcStats' = [svcStats EXCEPT ![k] = stat]
       /\ db' = IF saveFails THEN db ELSE [db EXCEPT ![k] = record]
       /\ ret' = [op |-> "UpsertFromService", key |-> k, pre |-> db[k],
                  err |-> saveFails]
       /\ UNCHANGED now
       /\ UNCHANGED otherVars

(* The services of the rules in the order HydrateRules visits them. *)
RECURSIVE RefsFrom(_, _)
RefsFrom(i, j) ==
    IF i > Len(Rules) THEN <<>>
    ELSE IF j > Len(Rules[i].Services) THEN RefsFrom(i + 1, 1)
    ELSE <<(<<i, j>>)>> \o RefsFrom(i, j + 1)

HydrateOrder == RefsFrom(1, 1)

(* A lookup that finds no stored record. *)
InStatsMapNever(records, k) == FALSE

(* The lookup in statsMap, built from the records the Find returned. *)
InStatsMap(records, k) == records[k] # NoRow

(* The loop of HydrateRules over the services n..Len(order); records is    *)
(* the result of the one Find at the start, failAt the position whose      *)
(* Create fails (0: none does).  Yields the table, the stats and the error.*)
RECURSIVE HydrateLoop(_, _, _, _, _)
HydrateLoop(n, records, failAt, d, s) ==
    IF n > Len(HydrateOrder) THEN [db |-> d, stats |-> s, err |-> FALSE]
    ELSE LET ref == HydrateOrder[n]
             k == KeyOf(ref)
         IN IF InStatsMap(records, k)
            THEN HydrateLoop(n + 1, records, failAt, d,
                             [s EXCEPT ![k] = toServiceStats(records[k])])
            ELSE LET stat == InitializeStats(ServiceAt(ref), s[k], now)
                     record == Normalize(stat, ServiceAt(ref), now)
                     s2 == [s EXCEPT ![k] = stat]
                 IN IF failAt = n \/ d[k] # NoRow
                    THEN [db |-> d, stats |-> s2, err |-> TRUE]
                    ELSE HydrateLoop(n + 1, records, failAt,
                                     [d EXCEPT ![k] = record], s2)

(* StatsStore.HydrateRules(rules); the result notes whether the Find       *)
(* failed and whether the call follows a HydrateRules that returned nil.   *)
HydrateRules(findFails, failAt) ==
    LET r == HydrateLoop(1, db, failAt, db, svcStats)
        again == ret.op = "HydrateRules" /\ ~ret.err
    IN /\ ops < MaxOps
       /\ ops' = ops + 1
       /\ IF findFails
          THEN /\ UNCHANGED <<db, svcStats>>
               /\ ret' = [op |-> "HydrateRules", err |-> TRUE, pre |-> db,
                          findErr |-> TRUE, again |-> again]
          ELSE /\ db' = r.db
               /\ svcStats' = r.stats
               /\ ret' = [op |-> "HydrateRules", err |-> r.err, pre |-> db,
                          findErr |-> FALSE, again |-> again]
       /\ UNCHANGED now
       /\ UNCHANGED otherVars

(* StatsStore.ClearAll: DELETE FROM service_stats. *)
ClearAll(execFails) ==
    /\ ops < MaxOps
    /\ ops' = ops + 1
    /\ db' = IF execFails THEN db ELSE [k \in Keys |-> NoRow]
    /\ ret' = [op |-> "ClearAll", err |-> execFails]
    /\ UNCHANGED <<now, svcStats>>
    /\ UNCHANGED otherVars

(* ServiceStats.RecordUsage: the usage recording logic of a service's own  *)
(* stats (window reset, then the counters; the window total is the sum of  *)
(* the window's input and output tokens).                                  *)
ServiceStatsRecordUsage(stats, t, inputTokens, outputTokens) ==
    LET w == IF Sub(t, stats.WindowStart) >= stats.TimeWindow
             THEN [stats EXCEPT !.WindowStart = t, !.WindowRequestCount = 0,
                                !.WindowTokensConsumed = 0,
                                !.WindowInputTokens = 0,
                                !.WindowOutputTokens = 0]
             ELSE stats
    IN [w EXCEPT !.RequestCount = @ + 1, !.LastUsed = t,
                 !.WindowRequestCount = @ + 1,
                 !.WindowInputTokens = @ + inputTokens,
                 !.WindowOutputTokens = @ + outputTokens,
                 !.WindowTokensConsumed =
                     (w.WindowInputTokens + inputTokens)
                     + (w.WindowOutputTokens + outputTokens)]

(* Service.RecordUsage: the load balancer's update of the service's own    *)
(* stats.                                                                  *)
ServiceRecordUsage(ref, inputTokens, outputTokens) ==
    LET k == KeyOf(ref)
        stat == InitializeStats(ServiceAt(ref), svcStats[k], now)
    IN /\ ops < MaxOps
       /\ ops' = ops + 1
       /\ svcStats' = [svcStats EXCEPT ![k] =
              ServiceStatsRecordUsage(stat, now, inputTokens, outputTokens)]
       /\ ret' = NoRet
       /\ UNCHANGED <<now, db>>
       /\ UNCHANGED otherVars

(* The clock advances. *)
Tick(d) ==
    /\ now + d <= MaxNow
    /\ now' = now + d
    /\ ret' = NoRet
    /\ UNCHANGED <<db, svcStats, ops>>
    /\ UNCHANGED otherVars

InitStats ==
    /\ now = 0
    /\ db = [k \in Keys |-> NoRow]
    /\ svcStats = [k \in Keys |-> ZeroStats]
    /\ ret = NoRet
    /\ ops = 0

Unlocked == 0

InitConc ==
    /\ mu = Unlocked
    /\ gor = <<>>
    /\ serial = NoRow

NoConfig == [enableAdaptor |-> FALSE]

NoExchange == [handler |-> "none"]

InitHTTPIdle ==
    /\ cfg = NoConfig
    /\ http = NoExchange

NoStream == [pc |-> "none"]

NoPool == [pc |-> "none"]

NoConv == [pc |-> "none"]

NoCall == [op |-> "none"]

InitAux ==
    /\ tp = NoPool
    /\ cv = NoConv
    /\ fn = NoCall

InitOther ==
    /\ calls = <<>>
    /\ InitConc
    /\ InitHTTPIdle
    /\ sh = NoStream
    /\ InitAux

Init ==
    /\ InitStats
    /\ InitOther

Next ==
    \/ \E d \in TickSteps : Tick(d)
    \/ \E ref \in ServiceRefs, i \in TokenVals, o \in TokenVals, e \in DBErrors :
          RecordUsage(ref, i, o, e)
    \/ RecordUsageNil
    \/ \E ref \in ServiceRefs, f \in BOOLEAN : UpsertFromService(ref, f)
    \/ \E ff \in BOOLEAN, failAt \in 0..Len(HydrateOrder) : HydrateRules(ff, failAt)
    \/ \E f \in BOOLEAN : ClearAll(f)
    \/ \E ref \in ServiceRefs, i \in TokenVals, o \in TokenVals :
          ServiceRecordUsage(ref, i, o)

Spec == Init /\ [][Next]_vars

(***************************************************************************)
(* The window-reset scenario: only svcA (time_window 60) records usage,    *)
(* and the clock moves in steps of 10 and 60 seconds.                      *)
(***************************************************************************)
ScenarioSteps == {10, 60}

ScenarioRef == <<1, 1>>

ScenarioRecordUsage(inputTokens, outputTokens, dbErr) ==
    /\ RecordUsageStep(ScenarioRef, inputTokens, outputTokens, dbErr)
    /\ calls' = IF dbErr = "none" THEN Append(calls, now) ELSE calls
    /\ UNCHANGED <<concVars, httpVars, sh, auxVars>>

NextScenario ==
    \/ \E d \in ScenarioSteps : Tick(d)
    \/ \E i \in TokenVals, o \in TokenVals, e \in DBErrors :
          ScenarioRecordUsage(i, o, e)

SpecScenario == Init /\ [][NextScenario]_vars

(***************************************************************************)
(* Concurrent RecordUsage calls on one (rule_uuid, provider, model):       *)
(* NumGoroutines goroutines each make one call on svcA; the steps of a     *)
(* call are the lock, the lookup, the update, the save and the deferred    *)
(* unlock, and the clock may advance between any two of them.              *)
(***************************************************************************)
NumGoroutines == 2

Goroutines == 1..NumGoroutines

ConcRef == <<1, 1>>

ConcKey == KeyOf(ConcRef)

Idle == [pc |-> "idle"]

(* ss.mu.Lock() taken without waiting for the holder to release it. *)
LockNoWait(g) == mu' = g

(* ss.mu.Lock(): blocks until the mutex is free. *)
Lock(g) ==
    /\ mu = Unlocked
    /\ mu' = g

(* RecordUsage is called and acquires the lock (stats_store.go:207). *)
ConcLock(g, inputTokens, outputTokens) ==
    /\ gor[g].pc = "idle"
    /\ Lock(g)
    /\ gor' = [gor EXCEPT ![g] = [pc |-> "locked", in |-> inputTokens,
                                  out |-> outputTokens]]
    /\ UNCHANGED <<now, db, svcStats, ret, ops, calls, serial, httpVars, sh, auxVars>>

(* The lookup (212-232): the row, a new record, or an error. *)
ConcLookup(g, fails) ==
    /\ gor[g].pc = "locked"
    /\ gor' = [gor EXCEPT ![g] =
          IF fails
          THEN [pc |-> "return", in |-> @.in, out |-> @.out, err |-> TRUE]
          ELSE [pc |-> "found", in |-> @.in, out |-> @.out,
                found |-> db[ConcKey], t1 |-> now,
                record |-> IF db[ConcKey] = NoRow
                           THEN NewRecord(ServiceAt(ConcRef), now)
                           ELSE db[ConcKey]]]
    /\ UNCHANGED <<now, db, svcStats, ret, ops, calls, mu, serial, httpVars, sh, auxVars>>

(* The update of the local record (235-249). *)
ConcUpdate(g) ==
    /\ gor[g].pc = "found"
    /\ gor' = [gor EXCEPT ![g] =
          [pc |-> "updated", in |-> @.in, out |-> @.out,
           found |-> @.found, t1 |-> @.t1, t2 |-> now,
           record |-> AddUsage(ResetWindow(@.record, now), now, @.in, @.out)]]
    /\ UNCHANGED <<now, db, svcStats, ret, ops, calls, mu, serial, httpVars, sh, auxVars>>

(* ss.db.Save(&record) (251-253). *)
ConcSave(g, fails) ==
    /\ gor[g].pc = "updated"
    /\ IF fails
       THEN /\ gor' = [gor EXCEPT ![g] =
                  [pc |-> "return", in |-> @.in, out |-> @.out, err |-> TRUE]]
            /\ UNCHANGED <<db, serial>>
       ELSE /\ db' = [db EXCEPT ![ConcKey] = gor[g].record]
            /\ serial' = UpdatedRecord(serial, ServiceAt(ConcRef), gor[g].t1,
                                       gor[g].t2, gor[g].in, gor[g].out)
            /\ gor' = [gor EXCEPT ![g] =
                  [pc |-> "return", in |-> @.in, out |-> @.out, err |-> FALSE]]
    /\ UNCHANGED <<now, svcStats, ret, ops, calls, mu, httpVars, sh, auxVars>>

(* The return and the deferred ss.mu.Unlock(). *)
ConcUnlock(g) ==
    /\ gor[g].pc = "return"
    /\ mu' = Unlocked
    /\ gor' = [gor EXCEPT ![g] = [pc |-> "done", in |-> @.in, out |-> @.out,
                                  err |-> @.err]]
    /\ UNCHANGED <<now, db, svcStats, ret, ops, calls, serial, httpVars, sh, auxVars>>

InitConcRun ==
    /\ InitStats
    /\ calls = <<>>
    /\ mu = Unlocked
    /\ gor = [g \in Goroutines |-> Idle]
    /\ serial = NoRow
    /\ InitHTTPIdle
    /\ sh = NoStream
    /\ InitAux

NextConc ==
    \/ \E d \in TickSteps : Tick(d)
    \/ \E g \in Goroutines, i \in TokenVals, o \in TokenVals : ConcLock(g, i, o)
    \/ \E g \in Goroutines, f \in BOOLEAN : ConcLookup(g, f)
    \/ \E g \in Goroutines : ConcUpdate(g)
    \/ \E g \in Goroutines, f \in BOOLEAN : ConcSave(g, f)
    \/ \E g \in Goroutines : ConcUnlock(g)

SpecConc == InitConcRun /\ [][NextConc]_vars

(***************************************************************************)
(* The request pipeline: /v1/chat/completions (ChatCompletions) and        *)
(* /v1/messages (anthropicMessagesV1, anthropicMessagesBeta).  The         *)
(* configuration is fixed when the server starts; every request is         *)
(* handled on its own.                                                     *)
(***************************************************************************)
ProviderIDs == {"p1", "p2"}

APIStyles == {"", "openai", "anthropic"}

ProviderStates == {"enabled", "disabled", "deleted"}

(* The request_model of the rule and another name no rule has. *)
RuleRequestModel == "gpt-4o"

ResponseModels == {"", "alias"}

(* Service weight as the soft cap on window_request_count; a weight-0      *)
(* (fallback) service is capped at one request per window.                 *)
Quota(weight) == IF weight > 0 THEN weight ELSE 1

ServiceIdx == 1..Len(Rules[1].Services)

ProviderOf(j) == Rules[1].Services[j].Provider

(* Eligible without the active check. *)
EligibleIgnoringActive(c, j) ==
    /\ c.providers[ProviderOf(j)].state = "enabled"
    /\ c.wrc[j] < Quota(c.weight[j])

(* Router filter: active, provider present and enabled, inside its window  *)
(* quota.                                                                  *)
Eligible(c, j) ==
    /\ c.active[j]
    /\ c.providers[ProviderOf(j)].state = "enabled"
    /\ c.wrc[j] < Quota(c.weight[j])

(* Router resolution: the possible results for a request model. *)
Resolve(c, requestModel) ==
    IF requestModel # RuleRequestModel
    THEN {[err |-> "UnknownModel", svc |-> 0]}
    ELSE LET cand == { j \in ServiceIdx : Eligible(c, j) }
             pos == { j \in cand : c.weight[j] > 0 }
         IN IF cand = {}
            THEN {[err |-> "AllExhausted", svc |-> 0]}
            ELSE { [err |-> "none", svc |-> j] :
                     j \in (IF pos # {} THEN pos ELSE cand) }

(* What the upstream answers to a non-streaming call: its own model id and *)
(* the token usage.                                                        *)
UpstreamResponse(j) ==
    [model |-> Rules[1].Services[j].Model, input |-> 3, output |-> 5]

(* How the forwarded call goes: the upstream answers, the call fails, or   *)
(* (for a streaming request) the client connection cannot stream.          *)
UpstreamOutcomes == {"ok", "error", "nostream"}

(* forwardAnthropicRequestV1 / Beta run the call under                     *)
(* context.WithTimeout(context.Background(), provider.Timeout): when the   *)
(* deadline passes first the call returns the context's error.  Only these *)
(* two forwarders set a deadline, so only a non-streaming request to an    *)
(* Anthropic-style provider can end this way.                              *)
CanTimeOut(c, req, r, up) ==
    up = "timeout" =>
        (req.binds /\ ~req.stream
           /\ c.providers[ProviderOf(r.svc)].style = "anthropic")

Requests ==
    [parses : BOOLEAN, model : {"", RuleRequestModel, "other"},
     messages : 0..1, stream : BOOLEAN, binds : BOOLEAN]

(* c.JSON(status, ErrorResponse{Error: ErrorDetail{Type: type}}) *)
ErrorReply(handler, req, r, status, type, upstream) ==
    [handler |-> handler, req |-> req, resolved |-> r, status |-> status,
     type |-> type, kind |-> "json", model |-> "", upstream |-> upstream,
     converted |-> FALSE, message |-> ""]

OKReply(handler, req, r, kind, model, upstream, converted) ==
    [handler |-> handler, req |-> req, resolved |-> r, status |-> 200,
     type |-> "", kind |-> kind, model |-> model, upstream |-> upstream,
     converted |-> converted, message |-> ""]

NotResolved == [err |-> "not resolved", svc |-> 0]

(* The context the upstream call is made with.  forwardOpenAIRequest calls *)
(* Chat.Completions.New(context.Background(), ...), forwardAnthropicRequest *)
(* V1 / Beta and the count_tokens handlers use context.WithTimeout(        *)
(* context.Background(), provider.Timeout seconds), the streaming          *)
(* forwarders context.Background().                                        *)
CallDeadline(api, stream) ==
    IF api = "openai" \/ stream THEN "none" ELSE "provider.Timeout"

(* A forwarder that tries a second time. *)
ForwardTwice(api, j, stream) ==
    <<[api |-> api, provider |-> ProviderOf(j),
       model |-> Rules[1].Services[j].Model, stream |-> stream,
       deadline |-> CallDeadline(api, stream)],
      [api |-> api, provider |-> ProviderOf(j),
       model |-> Rules[1].Services[j].Model, stream |-> stream,
       deadline |-> CallDeadline(api, stream)]>>

(* forwardOpenAIRequest, forwardAnthropicRequestV1 / Beta and their        *)
(* streaming counterparts: one call of the provider's client with the      *)
(* service's model; its result or error goes back to the handler.  The     *)
(* value is the list of upstream calls made.                               *)
Forward(api, j, stream) ==
    <<[api |-> api, provider |-> ProviderOf(j),
       model |-> Rules[1].Services[j].Model, stream |-> stream,
       deadline |-> CallDeadline(api, stream)]>>

(* The checks with the model looked at before the body's parse result. *)
ValidationErrorModelFirst(req) ==
    IF req.model = "" THEN "Model is required"
    ELSE IF ~req.parses THEN "Invalid request body"
    ELSE IF req.messages = 0 THEN "At least one message is required"
    ELSE ""

(* The checks ChatCompletions makes before it resolves the model: the      *)
(* message of the first one that fails, "" when all pass.                  *)
ValidationError(req) ==
    IF ~req.parses THEN "Invalid request body"
    ELSE IF req.model = "" THEN "Model is required"
    ELSE IF req.messages = 0 THEN "At least one message is required"
    ELSE ""

(* Server.ChatCompletions *)
ChatCompletionsReply(c, req, r, up) ==
    LET h == "ChatCompletions" IN
    IF ValidationError(req) # ""
    THEN [ErrorReply(h, req, NotResolved, 400, "invalid_request_error", <<>>)
            EXCEPT !.message = ValidationError(req)]
    ELSE IF r.err # "none" THEN ErrorReply(h, req, r, 400, "invalid_request_error", <<>>)
    ELSE LET call == Forward("openai", r.svc, FALSE)
         IN IF up = "error" THEN ErrorReply(h, req, r, 500, "api_error", call)
            ELSE OKReply(h, req, r, "json",
                         IF c.responseModel # "" THEN c.responseModel
                         ELSE UpstreamResponse(r.svc).model,
                         call, FALSE)

(* apiStyle := string(provider.APIStyle); "" defaults to "openai". *)
APIStyleOf(c, j) ==
    IF c.providers[ProviderOf(j)].style = "" THEN "openai"
    ELSE c.providers[ProviderOf(j)].style

(* The adaptor check that never rejects. *)
AdapterDisabledNever(c) == FALSE

(* The adaptor check that always rejects. *)
AdapterDisabledAlways(c) == TRUE

(* if !s.enableAdaptor *)
AdapterDisabled(c) == ~c.enableAdaptor

(* Server.anthropicMessagesV1, called with the request model as proxyModel, *)
(* the resolved provider and the selected service.                         *)
anthropicMessagesV1Reply(c, req, r, up) ==
    LET h == "anthropicMessagesV1"
        proxyModel == req.model
        actualModel == Rules[1].Services[r.svc].Model
        call(api) == Forward(api, r.svc, req.stream)
    IN
    IF ~req.binds THEN ErrorReply(h, req, r, 400, "invalid_request_error", <<>>)
    ELSE IF APIStyleOf(c, r.svc) = "anthropic"
    THEN IF req.stream
         THEN IF up = "nostream"
              THEN ErrorReply(h, req, r, 500, "api_error", call("anthropic"))
              ELSE OKReply(h, req, r, "sse", proxyModel, call("anthropic"), FALSE)
         ELSE IF up \in {"error", "timeout"}
              THEN ErrorReply(h, req, r, 500, "api_error", call("anthropic"))
              ELSE OKReply(h, req, r, "json", proxyModel, call("anthropic"), FALSE)
    ELSE IF AdapterDisabled(c)
    THEN ErrorReply(h, req, r, 422, "adapter_disabled", <<>>)
    ELSE IF up = "error" \/ (req.stream /\ up = "nostream")
         THEN [ErrorReply(h, req, r, 500, "api_error", call("openai"))
                 EXCEPT !.converted = TRUE]
         ELSE OKReply(h, req, r, IF req.stream THEN "sse" ELSE "json",
                      proxyModel, call("openai"), TRUE)

(* Server.anthropicMessagesBeta *)
anthropicMessagesBetaReply(c, req, r, up) ==
    LET h == "anthropicMessagesBeta"
        proxyModel == req.model
        actualModel == Rules[1].Services[r.svc].Model
        call == Forward("anthropic", r.svc, req.stream)
    IN
    IF ~req.binds THEN ErrorReply(h, req, r, 400, "invalid_request_error", <<>>)
    ELSE IF APIStyleOf(c, r.svc) = "anthropic"
    THEN IF req.stream
         THEN IF up = "nostream"
              THEN ErrorReply(h, req, r, 500, "api_error", call)
              ELSE OKReply(h, req, r, "sse", proxyModel, call, FALSE)
         ELSE IF up \in {"error", "timeout"}
              THEN ErrorReply(h, req, r, 500, "api_error", call)
              ELSE OKReply(h, req, r, "json", proxyModel, call, FALSE)
    ELSE ErrorReply(h, req, r, 422, "api_error", <<>>)

(* A style test that sends every style but "openai" to the upstream. *)
CountsUpstreamUnlessOpenAI(c, j) == c.providers[ProviderOf(j)].style # "openai"

(* if apiStyle == "anthropic", after the default of "openai" for "". *)
CountsUpstream(c, j) == APIStyleOf(c, j) = "anthropic"

(* Server.anthropicCountTokensV1 and Server.anthropicCountTokensBeta, which *)
(* differ in the SDK types only: the body is bound, then the count is      *)
(* asked of the upstream (under the provider's timeout) or computed with   *)
(* countTokensWithTiktoken; up is how that goes.  kind tells whose count   *)
(* the reply carries; every failure is answered 400.                       *)
anthropicCountTokensReply(h, c, req, r, up) ==
    IF ~req.binds THEN ErrorReply(h, req, r, 400, "invalid_request_error", <<>>)
    ELSE IF CountsUpstream(c, r.svc)
    THEN LET call == Forward("count_tokens", r.svc, FALSE)
         IN IF up \in {"error", "timeout"}
            THEN ErrorReply(h, req, r, 400, "invalid_request_error", call)
            ELSE OKReply(h, req, r, "count_upstream", "", call, FALSE)
    ELSE IF up = "error"
         THEN ErrorReply(h, req, r, 400, "invalid_request_error", <<>>)
         ELSE OKReply(h, req, r, "count_local", "", <<>>, FALSE)

(* Recording that does not look at the outcome of the request. *)
UsageRecordedAlways(reply) ==
    <<[input |-> 3, output |-> 5]>>

(* Usage recorded for the exchange: one event with the upstream-reported   *)
(* tokens when a non-streaming request completed successfully.             *)
UsageRecorded(reply) ==
    IF reply.status = 200 /\ reply.kind = "json"
    THEN <<[input |-> UpstreamResponse(reply.resolved.svc).input,
            output |-> UpstreamResponse(reply.resolved.svc).output]>>
    ELSE <<>>

(* One request is followed through the pipeline at a time: http holds it   *)
(* from its arrival until the reply has been sent.                         *)
Exchange(reply, up) ==
    /\ http = NoExchange
    /\ http' = reply @@ [usage |-> UsageRecorded(reply),
                         outcome |-> IF reply.upstream = <<>> THEN "none" ELSE up]
    /\ UNCHANGED cfg
    /\ UNCHANGED <<now, db, svcStats, ret, ops, calls, concVars, sh, auxVars>>

(* POST /v1/chat/completions *)
ChatCompletions(req, up) ==
    \E r \in Resolve(cfg, req.model) :
        Exchange(ChatCompletionsReply(cfg, req, r, up), up)

(* The /v1/messages entry point before it hands over to the standard or   *)
(* the beta handler: a body that does not parse or names no model, and a   *)
(* model the router cannot resolve, are answered here.                     *)
AnthropicMessagesReject(req, r) ==
    LET h == "AnthropicMessages" IN
    IF ~req.parses \/ req.model = ""
    THEN ErrorReply(h, req, NotResolved, 400, "invalid_request_error", <<>>)
    ELSE IF r.err = "UnknownModel"
    THEN ErrorReply(h, req, r, 400, "invalid_request_error", <<>>)
    ELSE ErrorReply(h, req, r, 503, "api_error", <<>>)

MessagesRejected(req) ==
    \E r \in Resolve(cfg, req.model) :
        /\ ~req.parses \/ req.model = "" \/ r.err # "none"
        /\ Exchange(AnthropicMessagesReject(req, r), "none")

(* POST /v1/messages *)
MessagesV1(req, up) ==
    /\ req.parses
    /\ \E r \in Resolve(cfg, req.model) :
          /\ r.err = "none"
          /\ CanTimeOut(cfg, req, r, up)
          /\ Exchange(anthropicMessagesV1Reply(cfg, req, r, up), up)

(* POST /v1/messages?beta=true *)
MessagesBeta(req, up) ==
    /\ req.parses
    /\ \E r \in Resolve(cfg, req.model) :
          /\ r.err = "none"
          /\ CanTimeOut(cfg, req, r, up)
          /\ Exchange(anthropicMessagesBetaReply(cfg, req, r, up), up)

(* POST /v1/messages/count_tokens, standard (V1) or beta.  Only the call   *)
(* to the upstream runs under a deadline.                                  *)
CountTokens(variant, req, up) ==
    /\ req.parses
    /\ up # "nostream"
    /\ \E r \in Resolve(cfg, req.model) :
          /\ r.err = "none"
          /\ up = "timeout" => (req.binds /\ CountsUpstream(cfg, r.svc))
          /\ Exchange(anthropicCountTokensReply("anthropicCountTokens" \o variant,
                                                cfg, req, r, up), up)

(* The reply has been written and the handler has returned. *)
Finish ==
    /\ http # NoExchange
    /\ http' = NoExchange
    /\ UNCHANGED cfg
    /\ UNCHANGED <<now, db, svcStats, ret, ops, calls, concVars, sh, auxVars>>

Configs ==
    [providers : [ProviderIDs -> [state : ProviderStates, style : APIStyles]],
     active : [ServiceIdx -> BOOLEAN],
     weight : [ServiceIdx -> 0..1],
     wrc : [ServiceIdx -> 0..1],
     enableAdaptor : BOOLEAN,
     responseModel : ResponseModels]

InitHTTP ==
    /\ InitStats
    /\ calls = <<>>
    /\ InitConc
    /\ cfg \in { c \in Configs :
                   c.providers["p2"] = [state |-> "enabled", style |-> "anthropic"] }
    /\ http = NoExchange
    /\ sh = NoStream
    /\ InitAux

NextHTTP ==
    \/ \E req \in Requests, up \in UpstreamOutcomes : ChatCompletions(req, up)
    \/ \E req \in Requests : MessagesRejected(req)
    \/ \E req \in Requests, up \in UpstreamOutcomes \cup {"timeout"} :
          MessagesV1(req, up)
    \/ \E req \in Requests, up \in UpstreamOutcomes \cup {"timeout"} :
          MessagesBeta(req, up)
    \/ \E variant \in {"V1", "Beta"}, req \in Requests,
          up \in UpstreamOutcomes \cup {"timeout"} :
          CountTokens(variant, req, up)
    \/ Finish

SpecHTTP == InitHTTP /\ [][NextHTTP]_vars

(***************************************************************************)
(* The Anthropic streaming handlers, handleAnthropicStreamResponseV1 and   *)
(* handleAnthropicStreamResponseBeta, one step per statement that reads    *)
(* the upstream stream or writes to the client.                            *)
(***************************************************************************)
MaxEvents == 3

Variants == {"V1", "Beta"}

EventTypes == {"message_start", "content_block_delta", "message_stop"}

RespModel == "gpt-4o"

UpstreamModelID == "m1"

otherThanStream ==
    <<now, db, svcStats, ret, ops, calls, concVars, httpVars, auxVars>>

(* The handler is entered with the stream forwardAnthropicStreamRequest    *)
(* returned. *)
StreamStart(variant, canFlush) ==
    [variant |-> variant, pc |-> "headers", canFlush |-> canFlush,
     nread |-> 0, cur |-> 0, curType |-> "", dropped |-> {},
     wire |-> <<>>, flushed |-> 0, closed |-> FALSE, exit |-> "",
     status |-> 200, clientGone |-> FALSE, afterGone |-> 0]

(* c.Header(...) five times, then flusher, ok := c.Writer.(http.Flusher);  *)
(* without a flusher the handler answers 500 and returns.                  *)
StreamHeaders ==
    /\ sh.pc = "headers"
    /\ sh' = IF sh.canFlush
             THEN [sh EXCEPT !.pc = "next"]
             ELSE [sh EXCEPT !.pc = "deferred", !.exit = "no_flusher",
                             !.status = 500]
    /\ UNCHANGED otherThanStream

(* ctx := context.Background() in forwardAnthropicStreamRequestV1 / Beta:  *)
(* the context of the upstream call is not derived from the request's, so  *)
(* it is never done, whatever happens to the client.                       *)
StreamCtxDone(s) == FALSE

(* The client goes away while the stream is being relayed: the context of  *)
(* the inbound request is cancelled.  The handler does not look at it, and *)
(* writes to the dead connection fail without stopping the loop.           *)
StreamClientDisconnect ==
    /\ sh.pc \in {"next", "marshal", "write", "flush"}
    /\ ~sh.clientGone
    /\ sh' = [sh EXCEPT !.clientGone = TRUE]
    /\ UNCHANGED otherThanStream

(* stream.Next() returns true: the next upstream event is current. *)
StreamNextEvent(type) ==
    /\ sh.pc = "next"
    /\ sh.nread < MaxEvents
    /\ ~StreamCtxDone(sh)
    /\ sh' = [sh EXCEPT !.pc = "marshal", !.nread = @ + 1,
                        !.cur = sh.nread + 1, !.curType = type,
                        !.afterGone = IF sh.clientGone THEN @ + 1 ELSE @]
    /\ UNCHANGED otherThanStream

(* stream.Next() returns false: the stream ended, cleanly or with an error;*)
(* stream.Err() tells which.                                               *)
StreamNextEnd(failed) ==
    /\ sh.pc = "next"
    /\ StreamCtxDone(sh) => failed
    /\ sh' = [sh EXCEPT !.pc = IF failed THEN "stream_error" ELSE "finish"]
    /\ UNCHANGED otherThanStream

(* The model written with an event: V1 overwrites event.Message.Model on   *)
(* every event; Beta leaves the event alone, so message_start, the one     *)
(* upstream event with a message in it, keeps the upstream's model id.     *)
EventModel(variant, type) ==
    IF variant = "V1" THEN RespModel
    ELSE IF type = "message_start" THEN UpstreamModelID
    ELSE ""

(* json.Marshal(event); on an error the event is skipped (continue). *)
StreamMarshal(fails) ==
    /\ sh.pc = "marshal"
    /\ sh' = IF fails
             THEN [sh EXCEPT !.pc = "next", !.dropped = @ \cup {sh.cur}]
             ELSE [sh EXCEPT !.pc = "write"]
    /\ UNCHANGED otherThanStream

(* An SSE event on the connection; id 0 marks an event the handler made.  *)
(* type and code are the payload's (error.)type and error.code.            *)
SSE(name, id, type, model) ==
    [name |-> name, id |-> id, type |-> type, model |-> model, code |-> ""]

(* The statement after c.SSEvent in the loop, if the flush were missing. *)
PcAfterWriteNoFlush == "next"

(* The statement after c.SSEvent in the loop: flusher.Flush(). *)
PcAfterWrite == "flush"

(* c.SSEvent(event.Type, string(eventJSON)) *)
StreamWrite ==
    /\ sh.pc = "write"
    /\ sh' = [sh EXCEPT !.pc = PcAfterWrite,
                        !.wire = Append(@, SSE(sh.curType, sh.cur, sh.curType,
                                               EventModel(sh.variant,
                                                          sh.curType)))]
    /\ UNCHANGED otherThanStream

(* flusher.Flush() at the end of the loop body. *)
StreamFlush ==
    /\ sh.pc = "flush"
    /\ sh' = [sh EXCEPT !.pc = "next", !.flushed = Len(sh.wire)]
    /\ UNCHANGED otherThanStream

(* errorEvent: {"type": "error", "error": {message, type: "stream_error",  *)
(* code: "stream_failed"}}, sent under the event name error.  json.Marshal *)
(* of this map of strings cannot fail.                                     *)
StreamErrorEvent ==
    [SSE("error", 0, "stream_error", "") EXCEPT !.code = "stream_failed"]

(* The error branch without its return: control falls through to the       *)
(* final message_stop.                                                     *)
PcAfterStreamErrorNoReturn == "finish"

(* The statement after the error event and its flush: return. *)
PcAfterStreamError == "deferred"

(* stream.Err() != nil: the error event, a flush, return. *)
StreamError ==
    /\ sh.pc = "stream_error"
    /\ sh' = [sh EXCEPT !.pc = PcAfterStreamError, !.exit = "stream_error",
                        !.wire = Append(@, StreamErrorEvent),
                        !.flushed = Len(sh.wire) + 1]
    /\ UNCHANGED otherThanStream

(* A final event sent under the name of its type. *)
FinishEventNamed == SSE("message_stop", 0, "message_stop", "")

(* finishEvent, {"type": "message_stop"}, sent by c.SSEvent("", ...). *)
FinishEvent == SSE("", 0, "message_stop", "")

(* The final message_stop event with an empty event name, a flush, return. *)
StreamFinish ==
    /\ sh.pc = "finish"
    /\ sh' = [sh EXCEPT !.pc = "deferred", !.exit = "normal",
                        !.wire = Append(@, FinishEvent),
                        !.flushed = Len(sh.wire) + 1]
    /\ UNCHANGED otherThanStream

(* A panic in the body of the handler: control passes to the deferred      *)
(* function, where recover() returns it.                                   *)
StreamPanic ==
    /\ sh.pc \in {"headers", "next", "marshal", "write", "flush",
                  "stream_error", "finish"}
    /\ sh' = [sh EXCEPT !.pc = "recover", !.exit = "panic"]
    /\ UNCHANGED otherThanStream

(* A recover branch that writes nothing to the client. *)
RecoverWritesNothing == <<>>

(* What the recover branch writes: c.Writer is never nil in a gin context, *)
(* so the event named error with the internal_error payload.               *)
RecoverWrites == <<SSE("error", 0, "internal_error", "")>>

(* The recover branch of the deferred function: an error event, flushed    *)
(* when the writer is a flusher.                                           *)
StreamRecover ==
    /\ sh.pc = "recover"
    /\ sh' = [sh EXCEPT !.pc = "deferred",
                        !.wire = @ \o RecoverWrites,
                        !.flushed = IF sh.canFlush
                                    THEN Len(sh.wire) + Len(RecoverWrites)
                                    ELSE @]
    /\ UNCHANGED otherThanStream

(* A deferred function that closes the stream only when nothing panicked. *)
CloseUnlessPanic(s) == [s EXCEPT !.closed = (s.exit # "panic")]

(* The end of the deferred function: stream.Close() (stream is never nil). *)
CloseStream(s) == [s EXCEPT !.closed = TRUE]

(* The deferred function closes the stream and the handler returns. *)
StreamDeferred ==
    /\ sh.pc = "deferred"
    /\ sh' = [CloseStream(sh) EXCEPT !.pc = "returned"]
    /\ UNCHANGED otherThanStream

InitStream ==
    /\ InitStats
    /\ calls = <<>>
    /\ InitConc
    /\ InitHTTPIdle
    /\ sh \in { StreamStart(v, f) : v \in Variants, f \in BOOLEAN }
    /\ InitAux

NextStream ==
    \/ StreamHeaders
    \/ \E type \in EventTypes : StreamNextEvent(type)
    \/ \E failed \in BOOLEAN : StreamNextEnd(failed)
    \/ StreamClientDisconnect
    \/ \E fails \in BOOLEAN : StreamMarshal(fails)
    \/ StreamWrite
    \/ StreamFlush
    \/ StreamError
    \/ StreamFinish
    \/ StreamPanic
    \/ StreamRecover
    \/ StreamDeferred

SpecStream == InitStream /\ [][NextStream]_vars

(***************************************************************************)
(* The transport pool (client.TransportPool): GetTransport split at its    *)
(* lock operations, Clear, and the callers running concurrently.           *)
(***************************************************************************)
MaxPoolCallers == 2

MaxClears == 1

PoolCallers == 1..MaxPoolCallers

(* Strings are sequences of characters; "/" and "|" are the characters the *)
(* key construction treats specially.  In a proxy URL a scheme with its    *)
(* colon counts as one character, and "%" stands for an escape that        *)
(* url.Parse rejects.                                                      *)
APIBases == { <<"a">>, <<"a", "/">>, <<"b">>, <<"a", "|", "x">> }

ProxyURLs ==
    { <<>>, <<"http:", "x">>, <<"socks5:", "x">>, <<"ftp:", "x">>,
      <<"%">>, <<"x", "|">> }

OAuthTypes == { <<>> }

(* strings.TrimRight(apiBase, "/") *)
RECURSIVE TrimRightSlash(_)
TrimRightSlash(str) ==
    IF str # <<>> /\ str[Len(str)] = "/"
    THEN TrimRightSlash(SubSeq(str, 1, Len(str) - 1))
    ELSE str

(* TransportPool.generateTransportKey: the first 16 hex digits of the      *)
(* SHA-256 of apiBase + "|" + proxyURL + "|" + oauthType; the digest is    *)
(* taken to tell apart the few key strings of the model.                   *)
generateTransportKey(apiBase, proxyURL, oauthType) ==
    TrimRightSlash(apiBase) \o <<"|">> \o proxyURL \o <<"|">> \o oauthType

(* The configurations GetTransport is called with: every base URL without *)
(* a proxy, and one base URL with every proxy.                             *)
PoolRequests ==
    { r \in APIBases \X ProxyURLs \X OAuthTypes :
        r[1] = <<"a">> \/ r[2] = <<>> }

PoolKeys == { generateTransportKey(r[1], r[2], r[3]) : r \in PoolRequests }

NoTransport == [id |-> 0]

Schemes == {"http:", "https:", "socks5:", "ftp:"}

(* url.Parse(proxyURL): an error for a malformed escape, otherwise the URL *)
(* with its scheme ("" when the string has none).                          *)
urlParse(str) ==
    [err |-> \E i \in 1..Len(str) : str[i] = "%",
     scheme |-> IF str # <<>> /\ str[1] \in Schemes THEN str[1] ELSE ""]

(* How proxy.SOCKS5 and the type assertion on its result go: a dialer that *)
(* dials with a context, an error, or a dialer without DialContext.        *)
DialOutcomes == {"ok", "error", "no_context"}

(* The Clone() of http.DefaultTransport: a transport without a proxy. *)
DefaultClone(id) == [id |-> id, kind |-> "default", proxy |-> <<>>]

(* createTransport that gives up (nil) on a proxy it cannot use. *)
createTransportOrNil(proxyURL, id, dial) ==
    IF proxyURL = <<>> THEN DefaultClone(id)
    ELSE IF urlParse(proxyURL).err THEN NoTransport
    ELSE IF urlParse(proxyURL).scheme \in {"http:", "https:"}
    THEN [id |-> id, kind |-> "proxy", proxy |-> proxyURL]
    ELSE IF urlParse(proxyURL).scheme = "socks5:"
    THEN IF dial = "ok"
         THEN [id |-> id, kind |-> "socks5", proxy |-> proxyURL]
         ELSE NoTransport
    ELSE NoTransport

(* TransportPool.createTransport: a new transport object (id is its        *)
(* identity): a clone of the default transport, or a transport that goes   *)
(* through the http(s) or SOCKS5 proxy.                                    *)
createTransport(proxyURL, id, dial) ==
    IF proxyURL = <<>> THEN DefaultClone(id)
    ELSE IF urlParse(proxyURL).err THEN DefaultClone(id)
    ELSE IF urlParse(proxyURL).scheme \in {"http:", "https:"}
    THEN [id |-> id, kind |-> "proxy", proxy |-> proxyURL]
    ELSE IF urlParse(proxyURL).scheme = "socks5:"
    THEN IF dial = "error" THEN DefaultClone(id)
         ELSE IF dial = "ok"
         THEN [id |-> id, kind |-> "socks5", proxy |-> proxyURL]
         ELSE DefaultClone(id)
    ELSE DefaultClone(id)

PoolIdle == [pc |-> "idle"]

(* An RWMutex: RLock waits for the writer, Lock for the writer and all     *)
(* readers.                                                                *)
CanRLock(p) == p.writer = 0

CanLock(p) == p.writer = 0 /\ p.readers = {}

(* A second lookup that never finds the key. *)
ExistsLockedNever(p, key) == FALSE

(* The double check under the write lock: tp.transports[key] exists. *)
ExistsLocked(p, key) == p.transports[key] # NoTransport

(* A caller enters GetTransport and computes the key. *)
PoolCall(g, apiBase, proxyURL, oauthType) ==
    /\ tp.call[g].pc = "idle"
    /\ tp' = [tp EXCEPT !.call[g] =
                 [pc |-> "rlock", apiBase |-> apiBase, proxy |-> proxyURL,
                  oauthType |-> oauthType,
                  key |-> generateTransportKey(apiBase, proxyURL, oauthType),
                  epoch |-> tp.epoch]]
    /\ UNCHANGED <<now, db, svcStats, ret, ops, calls, concVars, httpVars,
                   sh, cv, fn>>

(* tp.mutex.RLock(), the lookup and tp.mutex.RUnlock(): a hit returns the  *)
(* cached transport, a miss goes on to the write lock.                     *)
PoolRead(g) ==
    /\ tp.call[g].pc = "rlock"
    /\ CanRLock(tp)
    /\ tp' = [tp EXCEPT !.readers = @ \cup {g}, !.call[g].pc = "rcheck"]
    /\ UNCHANGED <<now, db, svcStats, ret, ops, calls, concVars, httpVars,
                   sh, cv, fn>>

PoolReadDone(g) ==
    /\ tp.call[g].pc = "rcheck"
    /\ tp' = IF tp.transports[tp.call[g].key] # NoTransport
             THEN [tp EXCEPT !.readers = @ \ {g},
                             !.call[g] =
                                 [pc |-> "done", apiBase |-> tp.call[g].apiBase,
                                  proxy |-> tp.call[g].proxy,
                                  oauthType |-> tp.call[g].oauthType,
                                  key |-> tp.call[g].key,
                                  epoch |-> tp.call[g].epoch,
                                  endEpoch |-> tp.epoch,
                                  made |-> "no",
                                  transport |-> tp.transports[tp.call[g].key]]]
             ELSE [tp EXCEPT !.readers = @ \ {g}, !.call[g].pc = "lock",
                             !.missed = @ \cup {g}]
    /\ UNCHANGED <<now, db, svcStats, ret, ops, calls, concVars, httpVars,
                   sh, cv, fn>>

(* tp.mutex.Lock() *)
PoolLock(g) ==
    /\ tp.call[g].pc = "lock"
    /\ CanLock(tp)
    /\ tp' = [tp EXCEPT !.writer = g, !.call[g].pc = "dcheck"]
    /\ UNCHANGED <<now, db, svcStats, ret, ops, calls, concVars, httpVars,
                   sh, cv, fn>>

(* Under the write lock: the double check, and on a miss createTransport   *)
(* and the insertion; then the deferred Unlock and the return.             *)
PoolCreate(g, dial) ==
    /\ tp.call[g].pc = "dcheck"
    /\ dial # "ok" =>
          (~ExistsLocked(tp, tp.call[g].key)
             /\ urlParse(tp.call[g].proxy).scheme = "socks5:")
    /\ LET key == tp.call[g].key
           hit == ExistsLocked(tp, key)
           transport == IF hit THEN tp.transports[key]
                        ELSE createTransport(tp.call[g].proxy, tp.nextId, dial)
       IN tp' = [tp EXCEPT
                    !.transports[key] = transport,
                    !.nextId = IF hit THEN @ ELSE @ + 1,
                    !.created = IF hit THEN @
                                ELSE @ \cup {<<key, tp.epoch, transport.id>>},
                    !.call[g] = [pc |-> "unlock",
                                 apiBase |-> tp.call[g].apiBase,
                                 proxy |-> tp.call[g].proxy,
                                 oauthType |-> tp.call[g].oauthType,
                                 key |-> key,
                                 epoch |-> tp.call[g].epoch,
                                 made |-> IF hit THEN "no" ELSE dial,
                                 transport |-> transport]]
    /\ UNCHANGED <<now, db, svcStats, ret, ops, calls, concVars, httpVars,
                   sh, cv, fn>>

PoolUnlock(g) ==
    /\ tp.call[g].pc = "unlock"
    /\ tp' = [tp EXCEPT !.writer = 0,
                        !.call[g] = [pc |-> "done",
                                     apiBase |-> tp.call[g].apiBase,
                                     proxy |-> tp.call[g].proxy,
                                     oauthType |-> tp.call[g].oauthType,
                                     key |-> tp.call[g].key,
                                     epoch |-> tp.call[g].epoch,
                                     endEpoch |-> tp.epoch,
                                     made |-> tp.call[g].made,
                                     transport |-> tp.call[g].transport]]
    /\ UNCHANGED <<now, db, svcStats, ret, ops, calls, concVars, httpVars,
                   sh, cv, fn>>

(* TransportPool.Clear: under the write lock the map is replaced by an     *)
(* empty one.                                                              *)
PoolClear ==
    /\ tp.epoch < MaxClears
    /\ CanLock(tp)
    /\ tp' = [tp EXCEPT !.transports = [k \in PoolKeys |-> NoTransport],
                        !.epoch = @ + 1]
    /\ UNCHANGED <<now, db, svcStats, ret, ops, calls, concVars, httpVars,
                   sh, cv, fn>>

(* globalTransportPool: an empty map and a free lock. *)
PoolStart ==
    [pc |-> "run", transports |-> [k \in PoolKeys |-> NoTransport],
     readers |-> {}, writer |-> 0, nextId |-> 1, epoch |-> 0, created |-> {},
     missed |-> {},
     call |-> [g \in PoolCallers |-> PoolIdle]]

InitPool ==
    /\ InitStats
    /\ calls = <<>>
    /\ InitConc
    /\ InitHTTPIdle
    /\ sh = NoStream
    /\ tp = PoolStart
    /\ cv = NoConv
    /\ fn = NoCall

NextPool ==
    \/ \E g \in PoolCallers, r \in PoolRequests : PoolCall(g, r[1], r[2], r[3])
    \/ \E g \in PoolCallers : PoolRead(g)
    \/ \E g \in PoolCallers : PoolReadDone(g)
    \/ \E g \in PoolCallers : PoolLock(g)
    \/ \E g \in PoolCallers, dial \in DialOutcomes : PoolCreate(g, dial)
    \/ \E g \in PoolCallers : PoolUnlock(g)
    \/ PoolClear

SpecPool == InitPool /\ [][NextPool]_vars

(***************************************************************************)
(* The OpenAI-to-Anthropic stream conversion (used by anthropicMessagesV1  *)
(* for a streaming request to an OpenAI-style provider): one state machine *)
(* per request, fed with the upstream deltas one at a time.                *)
(***************************************************************************)
MaxDeltas == 3

(* What an upstream chunk carries: nothing but the role, a piece of text,  *)
(* a piece of reasoning, or a fragment of the tool call with the given     *)
(* upstream index.                                                         *)
DeltaKinds ==
    { [kind |-> "role", tool |-> -1], [kind |-> "text", tool |-> -1],
      [kind |-> "thinking", tool |-> -1], [kind |-> "tool_use", tool |-> 0],
      [kind |-> "tool_use", tool |-> 1] }

FinishReasons == {"stop", "length", "tool_calls", "content_filter", ""}

NoBlock == [index |-> -1, kind |-> "", tool |-> -1]

Ev(type, index, kind) == [type |-> type, index |-> index, kind |-> kind]

(* On the first upstream chunk message_start is emitted. *)
ConvStarted(c) ==
    IF c.pc = "idle"
    THEN [c EXCEPT !.pc = "started",
                   !.out = Append(@, Ev("message_start", -1, ""))]
    ELSE c

(* A conversion that leaves an open block open. *)
ConvCloseOpenNever(c) == c

(* The open content block, if there is one, is closed with                 *)
(* content_block_stop.                                                     *)
ConvCloseOpen(c) ==
    IF c.open = NoBlock THEN c
    ELSE [c EXCEPT !.open = NoBlock,
                   !.out = Append(@, Ev("content_block_stop", c.open.index,
                                        c.open.kind))]

(* A new content block of the given kind gets the next index. *)
ConvOpen(c, d) ==
    [c EXCEPT !.open = [index |-> c.nextIndex, kind |-> d.kind, tool |-> d.tool],
              !.nextIndex = @ + 1,
              !.out = Append(@, Ev("content_block_start", c.nextIndex, d.kind))]

(* The delta type that goes with a block kind. *)
DeltaTypeOf(kind) ==
    IF kind = "text" THEN "text_delta"
    ELSE IF kind = "tool_use" THEN "input_json_delta"
    ELSE "thinking_delta"

ConvBlockDelta(c) ==
    [c EXCEPT !.out = Append(@, Ev("content_block_delta", c.open.index,
                                   DeltaTypeOf(c.open.kind)))]

(* One upstream chunk with content: it continues the open block when it    *)
(* is of the same kind (and, for a tool call, the same upstream index);    *)
(* otherwise the open block is closed and a new one opened.                *)
ConvContent(c, d) ==
    IF d.kind = "role" THEN c
    ELSE IF c.open.kind = d.kind /\ c.open.tool = d.tool
    THEN ConvBlockDelta(c)
    ELSE ConvBlockDelta(ConvOpen(ConvCloseOpen(c), d))

ConvDelta(d) ==
    /\ cv.pc \in {"idle", "started"}
    /\ cv.nin < MaxDeltas
    /\ cv' = [ConvContent(ConvStarted(cv), d) EXCEPT !.nin = @ + 1]
    /\ UNCHANGED <<now, db, svcStats, ret, ops, calls, concVars, httpVars,
                   sh, tp, fn>>

(* The upstream signals the end (the chunk with the finish reason): any    *)
(* open block is closed, then message_delta with the stop reason and the   *)
(* usage, then message_stop.                                               *)
ConvEnd(reason) ==
    /\ cv.pc \in {"idle", "started"}
    /\ LET c == ConvCloseOpen(ConvStarted(cv))
       IN cv' = [c EXCEPT !.pc = "done", !.finish = reason,
                          !.out = c.out \o <<Ev("message_delta", -1, ""),
                                             Ev("message_stop", -1, "")>>]
    /\ UNCHANGED <<now, db, svcStats, ret, ops, calls, concVars, httpVars,
                   sh, tp, fn>>

(* The upstream fails in mid-stream: the error event, and the stream is    *)
(* closed.                                                                 *)
ConvFail ==
    /\ cv.pc \in {"idle", "started"}
    /\ cv' = [cv EXCEPT !.pc = "failed",
                        !.out = Append(@, Ev("error", -1, "stream_error"))]
    /\ UNCHANGED <<now, db, svcStats, ret, ops, calls, concVars, httpVars,
                   sh, tp, fn>>

ConvStart ==
    [pc |-> "idle", open |-> NoBlock, nextIndex |-> 0, nin |-> 0,
     out |-> <<>>, finish |-> ""]

InitConv ==
    /\ InitStats
    /\ calls = <<>>
    /\ InitConc
    /\ InitHTTPIdle
    /\ sh = NoStream
    /\ tp = NoPool
    /\ cv = ConvStart
    /\ fn = NoCall

NextConv ==
    \/ \E d \in DeltaKinds : ConvDelta(d)
    \/ \E reason \in FinishReasons : ConvEnd(reason)
    \/ ConvFail

SpecConv == InitConv /\ [][NextConv]_vars

(***************************************************************************)
(* The conversion functions of the handlers and adapters, each applied to  *)
(* inputs drawn from small sets; fn holds the last call and its result.    *)
(***************************************************************************)
MaxTokVal == 3

(* max_tokens as a client can send it. *)
MaxTokensSent == 0..MaxTokVal

(* The configured default and the per-model maximum. *)
DefaultMaxTokens == {1, 2}

MaxAllowedVals == 1..MaxTokVal

(* c.ShouldBindJSON(&req): MaxTokens is an int64 field, so a body without  *)
(* max_tokens binds to 0, as one with max_tokens: 0 does.                  *)
BindMaxTokens(present, sent) == IF present THEN sent ELSE 0

(* The max_tokens block without the cap. *)
CapMaxTokensNoCap(maxTokens, thinkBudget, default, maxAllowed) ==
    IF thinkBudget THEN maxTokens
    ELSE IF maxTokens = 0 THEN default ELSE maxTokens

(* The max_tokens block of anthropicMessagesV1 / anthropicMessagesBeta:    *)
(* req.MaxTokens after it.  With a thinking budget nothing is done.        *)
CapMaxTokens(maxTokens, thinkBudget, default, maxAllowed) ==
    IF thinkBudget THEN maxTokens
    ELSE LET m == IF maxTokens = 0 THEN default ELSE maxTokens
         IN IF m > maxAllowed THEN maxAllowed ELSE m

fnOnly == <<now, db, svcStats, ret, ops, calls, concVars, httpVars, sh, tp, cv>>

(* A /v1/messages request reaches the max_tokens block. *)
MaxTokensCall(present, sent, thinkBudget, default, maxAllowed) ==
    /\ fn' = [op |-> "max_tokens", present |-> present, sent |-> sent,
              thinkBudget |-> thinkBudget, default |-> default,
              maxAllowed |-> maxAllowed,
              forwarded |-> CapMaxTokens(BindMaxTokens(present, sent),
                                         thinkBudget, default, maxAllowed)]
    /\ UNCHANGED fnOnly

(* finish_reason values an OpenAI upstream sends, and one it does not. *)
OpenAIFinishReasons ==
    {"stop", "length", "tool_calls", "content_filter", "function_call", ""}

UsageVals == 0..2

(* Server.convertOpenAIToAnthropic: the Anthropic-shaped response built    *)
(* from an OpenAI chat completion (one choice) and the model name to show. *)
convertOpenAIToAnthropic(openaiResp, model) ==
    [Type |-> "message", Role |-> "assistant", Model |-> model,
     StopReason |-> "end_turn", StopSequence |-> "",
     Usage |-> [InputTokens |-> openaiResp.Usage.PromptTokens,
                OutputTokens |-> openaiResp.Usage.CompletionTokens],
     Content |-> IF openaiResp.Content # ""
                 THEN <<[Type |-> "text", Text |-> openaiResp.Content]>>
                 ELSE <<>>]

(* A non-streaming OpenAI response is converted for an Anthropic client. *)
ConvertResponseCall(finish, prompt, completion, content) ==
    /\ fn' = [op |-> "convertOpenAIToAnthropic", finish |-> finish,
              prompt |-> prompt, completion |-> completion,
              out |-> convertOpenAIToAnthropic(
                         [FinishReason |-> finish, Content |-> content,
                          Usage |-> [PromptTokens |-> prompt,
                                     CompletionTokens |-> completion]],
                         RuleRequestModel)]
    /\ UNCHANGED fnOnly

(* Finish reasons of the three protocols, each with a value outside its    *)
(* table.                                                                  *)
AnthropicStopReasons ==
    {"end_turn", "max_tokens", "tool_use", "content_filter", "unknown"}

OpenAIReasonsForGoogle ==
    {"stop", "length", "content_filter", "tool_calls", "unknown"}

GoogleFinishReasons == {"STOP", "MAX_TOKENS", "SAFETY", "OTHER", "RECITATION"}

(* mapOpenAIFinishReasonToGoogle with tool_calls falling to the default. *)
mapOpenAIFinishReasonToGoogleNoTools(reason) ==
    CASE reason = "stop" -> "STOP"
      [] reason = "length" -> "MAX_TOKENS"
      [] reason = "content_filter" -> "SAFETY"
      [] OTHER -> "OTHER"

mapOpenAIFinishReasonToGoogle(reason) ==
    CASE reason = "stop" -> "STOP"
      [] reason = "length" -> "MAX_TOKENS"
      [] reason = "content_filter" -> "SAFETY"
      [] reason = "tool_calls" -> "STOP"
      [] OTHER -> "OTHER"

mapAnthropicFinishReasonToGoogle(reason) ==
    CASE reason = "end_turn" -> "STOP"
      [] reason = "max_tokens" -> "MAX_TOKENS"
      [] reason = "tool_use" -> "STOP"
      [] reason = "content_filter" -> "SAFETY"
      [] OTHER -> "OTHER"

mapGoogleFinishReasonToOpenAI(reason) ==
    CASE reason = "STOP" -> "stop"
      [] reason = "MAX_TOKENS" -> "length"
      [] reason = "SAFETY" -> "content_filter"
      [] OTHER -> "stop"

mapGoogleFinishReasonToAnthropic(reason) ==
    CASE reason = "STOP" -> "end_turn"
      [] reason = "MAX_TOKENS" -> "max_tokens"
      [] reason = "SAFETY" -> "content_filter"
      [] OTHER -> "end_turn"

mapOpenAIFinishReasonToAnthropic(reason) ==
    CASE reason = "stop" -> "end_turn"
      [] reason = "length" -> "max_tokens"
      [] reason = "tool_calls" -> "tool_use"
      [] reason = "content_filter" -> "content_filter"
      [] OTHER -> "end_turn"

(* mapAnthropicFinishReasonToOpenAI with tool_use falling to the default. *)
mapAnthropicFinishReasonToOpenAINoTools(reason) ==
    CASE reason = "end_turn" -> "stop"
      [] reason = "max_tokens" -> "length"
      [] reason = "content_filter" -> "content_filter"
      [] OTHER -> "stop"

mapAnthropicFinishReasonToOpenAI(reason) ==
    CASE reason = "end_turn" -> "stop"
      [] reason = "max_tokens" -> "length"
      [] reason = "tool_use" -> "tool_calls"
      [] reason = "content_filter" -> "content_filter"
      [] OTHER -> "stop"

(* One of the finish-reason conversions is applied, and the conversion in  *)
(* the opposite direction to its result.                                   *)
FinishReasonCall(from, to, reason) ==
    LET map(f, t, r) ==
            IF f = "openai" /\ t = "google" THEN mapOpenAIFinishReasonToGoogle(r)
            ELSE IF f = "openai" THEN mapOpenAIFinishReasonToAnthropic(r)
            ELSE IF f = "anthropic" /\ t = "google"
            THEN mapAnthropicFinishReasonToGoogle(r)
            ELSE IF f = "anthropic" THEN mapAnthropicFinishReasonToOpenAI(r)
            ELSE IF t = "openai" THEN mapGoogleFinishReasonToOpenAI(r)
            ELSE mapGoogleFinishReasonToAnthropic(r)
    IN
    /\ from # to
    /\ \/ from = "openai" /\ reason \in OpenAIReasonsForGoogle
       \/ from = "anthropic" /\ reason \in AnthropicStopReasons
       \/ from = "google" /\ reason \in GoogleFinishReasons
    /\ fn' = [op |-> "finish_reason", from |-> from, to |-> to, in |-> reason,
              out |-> map(from, to, reason),
              back |-> map(to, from, map(from, to, reason))]
    /\ UNCHANGED fnOnly

(* Rule UUIDs, provider and model names as sequences of characters; ":"   *)
(* is the character the key of a snapshot entry is built with.  A row      *)
(* stored for a rule without UUID has the empty rule UUID.                 *)
MaxRows == 2

RuleUUIDs == { <<>>, <<"a">> }

StatNames == { <<"a">>, <<"a", ":", "a">> }

RowIds == RuleUUIDs \X StatNames \X StatNames

(* The tables of at most MaxRows rows; the primary key (rule_uuid,         *)
(* provider, model) makes the rows of a table differ in it.                *)
Tables == { t \in SUBSET RowIds : Cardinality(t) <= MaxRows }

(* StatsStore.key: "rule:provider:model", or "provider:model" when the     *)
(* rule UUID is empty.                                                     *)
StatsKey(ruleUUID, provider, model) ==
    IF ruleUUID # <<>>
    THEN ruleUUID \o <<":">> \o provider \o <<":">> \o model
    ELSE provider \o <<":">> \o model

(* StatsStore.Snapshot: the keys of the map it returns, one assignment     *)
(* snapshot[key] per record found; an empty map when the Find fails.       *)
Snapshot(records, findFails) ==
    IF findFails THEN {}
    ELSE { StatsKey(r[1], r[2], r[3]) : r \in records }

SnapshotCall(records, findFails) ==
    /\ fn' = [op |-> "Snapshot", rows |-> records, findFails |-> findFails,
              out |-> Snapshot(records, findFails)]
    /\ UNCHANGED fnOnly

InitFn ==
    /\ InitStats
    /\ calls = <<>>
    /\ InitConc
    /\ InitHTTPIdle
    /\ sh = NoStream
    /\ tp = NoPool
    /\ cv = NoConv
    /\ fn = NoCall

(* Bodies the scenario recorder may see: none, two JSON objects, a JSON    *)
(* array, a truncated object and the JSON null.                            *)
ScenarioBodies == { "", "{\"model\":\"m\"}", "{}", "[1]", "{", "null" }

(* A Go map[string]interface{}: nil, or its entries as key/value pairs. *)
NilMap == [nil |-> TRUE, entries |-> {}]

MapOf(entries) == [nil |-> FALSE, entries |-> entries]

(* map[string]interface{}{"raw": string(bytes)} *)
RawMap(bytes) == MapOf({ <<"raw", bytes>> })

(* json.Unmarshal(bytes, &bodyJSON) into a nil map[string]interface{}: an  *)
(* object fills the map, null leaves it nil without error, anything else   *)
(* (no input, bad syntax, a value that is not an object) is an error and   *)
(* leaves the map nil.                                                     *)
jsonUnmarshal(bytes) ==
    CASE bytes = "{\"model\":\"m\"}" ->
            [err |-> FALSE, value |-> MapOf({ <<"model", "m">> })]
      [] bytes = "{}" -> [err |-> FALSE, value |-> MapOf({})]
      [] bytes = "null" -> [err |-> FALSE, value |-> NilMap]
      [] OTHER -> [err |-> TRUE, value |-> NilMap]

(* Server.RecordScenarioRequest: the Body of the recorded request. *)
RequestBody(bodyBytes) ==
    IF bodyBytes = "" THEN NilMap
    ELSE LET u == jsonUnmarshal(bodyBytes)
         IN IF u.err THEN RawMap(bodyBytes) ELSE u.value

(* ScenarioRecorder.RecordResponse: the Body of the recorded response;     *)
(* captured says that the context holds "response_body" as a byte slice.   *)
ResponseBody(captured, bytes) ==
    IF ~captured THEN NilMap
    ELSE LET u == jsonUnmarshal(bytes)
         IN IF ~u.err THEN RawMap(bytes) ELSE u.value

(* One recorded exchange: RecordScenarioRequest, then RecordResponse. *)
RecordScenarioCall(reqBytes, captured, respBytes) ==
    /\ fn' = [op |-> "RecordScenario", reqBytes |-> reqBytes,
              captured |-> captured, respBytes |-> respBytes,
              req |-> RequestBody(reqBytes),
              resp |-> ResponseBody(captured, respBytes)]
    /\ UNCHANGED fnOnly

NextFn ==
    \/ \E present \in BOOLEAN, sent \in MaxTokensSent, thinkBudget \in BOOLEAN,
          default \in DefaultMaxTokens, maxAllowed \in MaxAllowedVals :
          MaxTokensCall(present, sent, thinkBudget, default, maxAllowed)
    \/ \E finish \in OpenAIFinishReasons, prompt \in UsageVals,
          completion \in UsageVals, content \in {"", "hi"} :
          ConvertResponseCall(finish, prompt, completion, content)
    \/ \E from \in {"openai", "anthropic", "google"},
          to \in {"openai", "anthropic", "google"},
          reason \in OpenAIReasonsForGoogle \cup AnthropicStopReasons
                       \cup GoogleFinishReasons :
          FinishReasonCall(from, to, reason)
    \/ \E records \in Tables, findFails \in BOOLEAN :
          SnapshotCall(records, findFails)
    \/ \E reqBytes \in ScenarioBodies, captured \in BOOLEAN,
          respBytes \in ScenarioBodies :
          RecordScenarioCall(reqBytes, captured, respBytes)

SpecFn == InitFn /\ [][NextFn]_vars

(***************************************************************************)
(* Claims about the stats store                                            *)
(***************************************************************************)

(* The last call was a RecordUsage on a service and it succeeded. *)
RecordedOK ==
    /\ ret.op = "RecordUsage"
    /\ ret.key # <<>>
    /\ ~ret.err

(* C1: in every row of the stats store that RecordUsage, UpsertFromService,*)
(* HydrateRules and ClearAll can produce,                                  *)
(* window_input_tokens + window_output_tokens = window_tokens_consumed.    *)
C1_WindowSum ==
    \A k \in Keys :
        db[k] # NoRow =>
            db[k].WindowInputTokens + db[k].WindowOutputTokens
                = db[k].WindowTokensConsumed

(* A row that already holds tokens, of a service whose own stats carry    *)
(* usage too, records further usage with both kinds of tokens.            *)
C1_Witness ==
    /\ RecordedOK
    /\ ret.pre # NoRow
    /\ ret.pre.WindowTokensConsumed > 0
    /\ ret.in > 0
    /\ ret.out > 0
    /\ svcStats[ret.key].RequestCount > 0

(* C2: RecordUsage on an existing row whose window is at least time_window *)
(* old stores and returns window_start = now, window_request_count = 1,    *)
(* window_input_tokens = in, window_output_tokens = out and                *)
(* window_tokens_consumed = in + out.                                      *)
C2_WindowExpired ==
    /\ RecordedOK
    /\ ret.pre # NoRow
    /\ Sub(now, ret.pre.WindowStart) >= ret.pre.TimeWindow

C2_ResetThenAdd ==
    C2_WindowExpired =>
        /\ db[ret.key].WindowStart = now
        /\ db[ret.key].WindowRequestCount = 1
        /\ db[ret.key].WindowInputTokens = ret.in
        /\ db[ret.key].WindowOutputTokens = ret.out
        /\ db[ret.key].WindowTokensConsumed = ret.in + ret.out
        /\ ret.stats = toServiceStats(db[ret.key])

(* The old window held requests and tokens, and exactly time_window has   *)
(* passed.                                                                *)
C2_Witness ==
    /\ C2_WindowExpired
    /\ ret.pre.WindowRequestCount > 0
    /\ ret.pre.WindowTokensConsumed > 0
    /\ Sub(now, ret.pre.WindowStart) = ret.pre.TimeWindow
    /\ ret.in + ret.out > 0

(* C3: every successful RecordUsage raises request_count by exactly 1,     *)
(* window reset or not; with time_window = 60, usages recorded at t = 0,   *)
(* 10 and 70 leave request_count = 3, window_request_count = 1 and         *)
(* window_start = 70.                                                      *)
C3_Cumulative ==
    /\ RecordedOK =>
          db[ret.key].RequestCount
              = (IF ret.pre = NoRow THEN 0 ELSE ret.pre.RequestCount) + 1
    /\ calls = <<0, 10, 70>> =>
          /\ db[KeyOf(ScenarioRef)].RequestCount = 3
          /\ db[KeyOf(ScenarioRef)].WindowRequestCount = 1
          /\ db[KeyOf(ScenarioRef)].WindowStart = 70

C3_Witness ==
    /\ calls = <<0, 10, 70>>
    /\ RecordedOK
    /\ now = 70

(* The calls that have returned, and those among them that succeeded. *)
ConcDone == { g \in Goroutines : gor[g].pc = "done" }

ConcSucceeded == { g \in ConcDone : ~gor[g].err }

(* C4: for RecordUsage calls issued concurrently on the same (rule_uuid,   *)
(* provider, model), once all have returned the row equals the result of   *)
(* applying the successful calls one at a time in the order they saved:    *)
(* no update is lost and request_count is the number of successful calls.  *)
C4_Serialised ==
    ConcDone = Goroutines =>
        /\ db[ConcKey] = serial
        /\ ConcSucceeded # {} => db[ConcKey].RequestCount = Cardinality(ConcSucceeded)
        /\ ConcSucceeded = {} => db[ConcKey] = NoRow

(* All calls returned successfully, with tokens, and the clock moved while *)
(* they ran.                                                               *)
C4_Witness ==
    /\ ConcDone = Goroutines
    /\ ConcSucceeded = Goroutines
    /\ db[ConcKey].RequestCount = NumGoroutines
    /\ db[ConcKey].WindowTokensConsumed > 0
    /\ db[ConcKey].LastUsed > db[ConcKey].WindowStart

(***************************************************************************)
(* Claims about the request pipeline                                       *)
(***************************************************************************)

(* The request in http was resolved to a service. *)
Resolved ==
    /\ http.handler # "none"
    /\ http.resolved.err = "none"

(* C5: model resolution never returns a service whose active flag is       *)
(* false, nor a service whose provider is disabled or deleted.             *)
C5_RouterFilters ==
    Resolved =>
        /\ cfg.active[http.resolved.svc]
        /\ cfg.providers[ProviderOf(http.resolved.svc)].state = "enabled"

(* The fallback service was returned because the positive-weight one is    *)
(* inactive or its provider is disabled or deleted.                        *)
C5_Witness ==
    /\ Resolved
    /\ http.resolved.svc = 2
    /\ cfg.weight[1] > 0
    /\ cfg.weight[2] = 0
    /\ cfg.wrc[1] < Quota(cfg.weight[1])
    /\ ~cfg.active[1] \/ cfg.providers["p1"].state # "enabled"

(* C6: in every successful non-streaming response of /v1/chat/completions  *)
(* and /v1/messages the model field is the configured response_model when  *)
(* that is non-empty and otherwise the model name of the request.          *)
C6_ResponseModel ==
    (http.handler \in {"ChatCompletions", "anthropicMessagesV1",
                       "anthropicMessagesBeta"}
       /\ http.status = 200 /\ http.kind = "json") =>
        http.model = (IF cfg.responseModel # "" THEN cfg.responseModel
                      ELSE http.req.model)

(* A standard /v1/messages request was resolved to a provider that does    *)
(* not speak the Anthropic protocol.                                       *)
V1ToOpenAIStyle ==
    /\ http.handler = "anthropicMessagesV1"
    /\ APIStyleOf(cfg, http.resolved.svc) # "anthropic"

(* C7 as stated: with the adapter flag off, a /v1/messages request that    *)
(* resolves to a provider whose API style is not anthropic is answered     *)
(* 422 adapter_disabled, with no upstream call and no usage recorded.      *)
C7_Original ==
    (V1ToOpenAIStyle /\ ~cfg.enableAdaptor) =>
        /\ http.status = 422
        /\ http.type = "adapter_disabled"
        /\ http.upstream = <<>>
        /\ http.usage = <<>>

(* C7 amended: the same, for a request whose body binds to the message     *)
(* parameters (one that does not is answered 400 before the style check).  *)
C7_AdapterDisabled ==
    (V1ToOpenAIStyle /\ ~cfg.enableAdaptor /\ http.req.binds) =>
        /\ http.status = 422
        /\ http.type = "adapter_disabled"
        /\ http.upstream = <<>>
        /\ http.usage = <<>>

(* The provider's style is empty, which counts as openai. *)
C7_Witness ==
    /\ V1ToOpenAIStyle
    /\ ~cfg.enableAdaptor
    /\ http.req.binds
    /\ cfg.providers[ProviderOf(http.resolved.svc)].style = ""
    /\ http.status = 422

C9_StreamClosed ==
    sh.pc = "returned" =>
        /\ sh.closed
        /\ sh.exit \in {"normal", "stream_error", "no_flusher", "panic"}

(* The handler returned after a panic that interrupted a stream of which   *)
(* events had already been written.                                        *)
C9_Witness ==
    /\ sh.pc = "returned"
    /\ sh.exit = "panic"
    /\ sh.nread > 1
    /\ Len(sh.wire) > 1
    /\ sh.closed

(* The ids of the upstream events on the wire, in the order written. *)
RECURSIVE UpstreamIds(_)
UpstreamIds(w) ==
    IF w = <<>> THEN <<>>
    ELSE IF Head(w).id = 0 THEN UpstreamIds(Tail(w))
    ELSE <<Head(w).id>> \o UpstreamIds(Tail(w))

(* The events 1..n in the order read, without those in the set skipped. *)
RECURSIVE ReadOrder(_, _)
ReadOrder(n, skipped) ==
    IF n = 0 THEN <<>>
    ELSE IF n \in skipped THEN ReadOrder(n - 1, skipped)
    ELSE Append(ReadOrder(n - 1, skipped), n)

(* C10: within one streaming request the handler writes the upstream       *)
(* events in exactly the order it read them, none reordered or duplicated, *)
(* and each is flushed before the next upstream event is read.             *)
C10_OrderAndFlush ==
    /\ \A i \in 1..Len(UpstreamIds(sh.wire)), j \in 1..Len(UpstreamIds(sh.wire)) :
          i < j => UpstreamIds(sh.wire)[i] < UpstreamIds(sh.wire)[j]
    /\ sh.pc = "next" =>
          /\ UpstreamIds(sh.wire) = ReadOrder(sh.nread, sh.dropped)
          /\ sh.flushed = Len(sh.wire)

(* About to read again after several events were written and one skipped. *)
C10_Witness ==
    /\ sh.pc = "next"
    /\ sh.nread = 3
    /\ Len(sh.wire) = 2
    /\ sh.flushed = 2

(* The events on the wire that carry the given payload type. *)
WireOfType(type) == { i \in 1..Len(sh.wire) : sh.wire[i].type = type }

(* C11: when the upstream stream ends with an error (stream.Err() is set   *)
(* after the read loop), the handler writes one SSE event named error with *)
(* error.type = stream_error and error.code = stream_failed, nothing after *)
(* it (no message_stop of the handler's own; id 0 marks the events the     *)
(* handler makes), and the stream is closed when it returns.               *)
C11_StreamErrorEvent ==
    /\ \A i \in WireOfType("stream_error") :
          /\ i = Len(sh.wire)
          /\ sh.wire[i].name = "error"
          /\ sh.wire[i].code = "stream_failed"
    /\ sh.exit = "stream_error" =>
          /\ Cardinality(WireOfType("stream_error")) = 1
          /\ \A i \in WireOfType("message_stop") : sh.wire[i].id # 0
          /\ sh.flushed = Len(sh.wire)
          /\ sh.pc = "returned" => sh.closed

(* The upstream failed after events had been relayed, and the handler has  *)
(* returned.                                                               *)
C11_Witness ==
    /\ sh.pc = "returned"
    /\ sh.exit = "stream_error"
    /\ sh.nread > 1
    /\ Len(sh.wire) > 2
    /\ sh.wire[Len(sh.wire)] = StreamErrorEvent
    /\ sh.closed

(* C12: once the client has disconnected while a streaming request is in   *)
(* progress, the upstream streaming call is cancelled: the handler         *)
(* receives no further upstream event from it.                             *)
C12_DisconnectCancels ==
    sh.clientGone => sh.afterGone = 0

(***************************************************************************)
(* Claims about the transport pool                                         *)
(***************************************************************************)

(* The GetTransport calls that have returned and during which Clear did    *)
(* not run.                                                                *)
PoolDone ==
    { g \in PoolCallers :
        tp.call[g].pc = "done" /\ tp.call[g].epoch = tp.call[g].endEpoch }

(* C13: for concurrent GetTransport calls with the same (base URL, proxy   *)
(* URL, auth type), with no Clear in between, exactly one transport is     *)
(* created and every caller receives that same instance.                   *)
C13_OneTransport ==
    /\ \A g \in PoolDone, h \in PoolDone :
          (tp.call[g].key = tp.call[h].key /\ tp.call[g].epoch = tp.call[h].epoch)
              => tp.call[g].transport = tp.call[h].transport
    /\ \A g \in PoolDone :
          /\ tp.call[g].transport # NoTransport
          /\ Cardinality({ c \in tp.created :
                             c[1] = tp.call[g].key /\ c[2] = tp.call[g].epoch }) = 1

(* Two callers both missed under the read lock, for the same key, and both *)
(* returned: one of them created the transport, the other found it in the  *)
(* double check.                                                           *)
C13_Witness ==
    /\ PoolDone = PoolCallers
    /\ \A g \in PoolCallers : tp.call[g].key = tp.call[1].key
    /\ \A g \in PoolCallers : tp.call[g].transport = tp.call[1].transport
    /\ tp.epoch = 0
    /\ tp.nextId = 2
    /\ tp.missed = PoolCallers

(* The request in http failed: validation or routing (400, 503),           *)
(* adaptation (422) or the upstream call (500).                            *)
RequestFailed ==
    /\ http.handler # "none"
    /\ http.status # 200

C15_NoRetry ==
    http.handler # "none" =>
        /\ Len(http.upstream) <= 1
        /\ http.outcome = "error" =>
              /\ Len(http.upstream) = 1
              /\ http.upstream[1].provider = ProviderOf(http.resolved.svc)

(* The upstream of a streaming request failed while the rule's other       *)
(* service was eligible, and the one call made is all there was.           *)
C15_Witness ==
    /\ http.handler = "anthropicMessagesV1"
    /\ http.req.stream
    /\ http.outcome = "error"
    /\ http.kind = "sse"
    /\ Len(http.upstream) = 1
    /\ http.resolved.svc = 1
    /\ Eligible(cfg, 2)

(* The router was asked about the rule's model, and the rule holds service *)
(* A (the first, weight 1) and service B (the second, weight 0).           *)
QuotaScenario ==
    /\ http.handler # "none"
    /\ http.resolved # NotResolved
    /\ http.req.model = RuleRequestModel
    /\ cfg.weight[1] = 1
    /\ cfg.weight[2] = 0

(* C16: with service A (weight 1) and service B (weight 0), resolution     *)
(* picks A while A is within its quota, B once A's window_request_count    *)
(* has reached its cap, and fails with AllExhausted, answered HTTP 503,    *)
(* when neither is available; B is never picked while A remains.           *)
C16_QuotaRouting ==
    QuotaScenario =>
        /\ Eligible(cfg, 1) => http.resolved = [err |-> "none", svc |-> 1]
        /\ (~Eligible(cfg, 1) /\ Eligible(cfg, 2)) =>
              http.resolved = [err |-> "none", svc |-> 2]
        /\ (~Eligible(cfg, 1) /\ ~Eligible(cfg, 2)) =>
              /\ http.resolved.err = "AllExhausted"
              /\ http.status = 503

(***************************************************************************)
(* Claims about the stream conversion                                      *)
(***************************************************************************)

(* The events from the i-th on are read by the acceptor of                 *)
(* Idle -> MessageStarted -> (BlockOpen -> BlockDelta* -> BlockClose)* ->  *)
(* MessageDelta -> MessageStop; open is the index of the open block, -1    *)
(* for none.  The result is the phase reached, "bad" for an event out of   *)
(* place.                                                                  *)
RECURSIVE ConvScan(_, _, _, _)
ConvScan(out, i, phase, open) ==
    IF i > Len(out) THEN phase
    ELSE LET e == out[i] IN
         IF e.type = "message_start"
         THEN IF phase = "idle" THEN ConvScan(out, i + 1, "started", open)
              ELSE "bad"
         ELSE IF e.type = "content_block_start"
         THEN IF phase = "started" /\ open = -1
              THEN ConvScan(out, i + 1, phase, e.index) ELSE "bad"
         ELSE IF e.type = "content_block_delta"
         THEN IF phase = "started" /\ open = e.index
              THEN ConvScan(out, i + 1, phase, open) ELSE "bad"
         ELSE IF e.type = "content_block_stop"
         THEN IF phase = "started" /\ open = e.index
              THEN ConvScan(out, i + 1, phase, -1) ELSE "bad"
         ELSE IF e.type = "message_delta"
         THEN IF phase = "started" /\ open = -1
              THEN ConvScan(out, i + 1, "message_delta", open) ELSE "bad"
         ELSE IF e.type = "message_stop"
         THEN IF phase = "message_delta"
              THEN ConvScan(out, i + 1, "message_stop", open) ELSE "bad"
         ELSE IF e.type = "error" /\ i = Len(out) THEN "failed"
         ELSE "bad"

(* C17: for any sequence of upstream deltas the Anthropic event stream     *)
(* produced is well formed: message_start first and exactly once, at most  *)
(* one content block open at a time, every content_block_start followed by *)
(* the content_block_stop of the same index before the next                *)
(* content_block_start or the message_delta, and message_delta followed by *)
(* message_stop last.                                                      *)
C17_WellFormedStream ==
    /\ ConvScan(cv.out, 1, "idle", -1) # "bad"
    /\ cv.pc = "done" =>
          /\ ConvScan(cv.out, 1, "idle", -1) = "message_stop"
          /\ cv.out[1].type = "message_start"
          /\ Cardinality({ i \in 1..Len(cv.out) :
                             cv.out[i].type = "message_start" }) = 1
          /\ cv.out[Len(cv.out) - 1].type = "message_delta"
          /\ cv.out[Len(cv.out)].type = "message_stop"

(* Text, then a tool call, then the end while the tool block was open:     *)
(* two blocks, indexes 0 and 1, each closed.                               *)
C17_Witness ==
    /\ cv.pc = "done"
    /\ cv.nin = 2
    /\ cv.nextIndex = 2
    /\ Len(cv.out) = 9
    /\ cv.out[2] = Ev("content_block_start", 0, "text")
    /\ cv.out[5] = Ev("content_block_start", 1, "tool_use")
    /\ cv.out[7] = Ev("content_block_stop", 1, "tool_use")

(***************************************************************************)
(* Claims about the conversion functions                                   *)
(***************************************************************************)
Min(a, b) == IF a < b THEN a ELSE b

(* C18 as stated: without a thinking budget the max_tokens forwarded is    *)
(* min(m, cap), m being the client's max_tokens, or the configured default *)
(* when the client sent none.                                              *)
C18_Original ==
    (fn.op = "max_tokens" /\ ~fn.thinkBudget) =>
        fn.forwarded = Min(IF fn.present THEN fn.sent ELSE fn.default,
                           fn.maxAllowed)

(* C18 amended: without a thinking budget the max_tokens forwarded is      *)
(* min(m, cap), m being the client's max_tokens, or the configured default *)
(* when the client sent none or sent 0; with a thinking budget the value   *)
(* is forwarded as the client sent it (0 when it sent none), with neither  *)
(* the default nor the cap applied.                                        *)
C18_MaxTokensCap ==
    fn.op = "max_tokens" =>
        /\ ~fn.thinkBudget =>
              fn.forwarded =
                  Min(IF fn.present /\ fn.sent # 0 THEN fn.sent ELSE fn.default,
                      fn.maxAllowed)
        /\ fn.thinkBudget =>
              fn.forwarded = (IF fn.present THEN fn.sent ELSE 0)

(* The client sent more than the model allows and no thinking budget. *)
C18_Witness ==
    /\ fn.op = "max_tokens"
    /\ ~fn.thinkBudget
    /\ fn.present
    /\ fn.sent > fn.maxAllowed
    /\ fn.forwarded = fn.maxAllowed

(* The fixed table from OpenAI finish_reason to Anthropic stop_reason. *)
StopReasonTable(finish) ==
    CASE finish = "stop" -> "end_turn"
      [] finish = "length" -> "max_tokens"
      [] finish = "tool_calls" -> "tool_use"
      [] finish = "content_filter" -> "content_filter"
      [] OTHER -> "end_turn"

(* C19: a non-streaming OpenAI response converted to the Anthropic shape   *)
(* carries the stop_reason the table gives for the upstream finish_reason, *)
(* input_tokens = prompt_tokens and output_tokens = completion_tokens.     *)
C19_StopReasonAndUsage ==
    fn.op = "convertOpenAIToAnthropic" =>
        /\ fn.out.StopReason = StopReasonTable(fn.finish)
        /\ fn.out.Usage.InputTokens = fn.prompt
        /\ fn.out.Usage.OutputTokens = fn.completion

(* The rows of the finish-reason tables to and from the Google protocol;   *)
(* "*" stands for any value not named in the same table.                   *)
GoogleTable(from, to) ==
    IF from = "openai"
    THEN {<<"stop", "STOP">>, <<"length", "MAX_TOKENS">>,
          <<"content_filter", "SAFETY">>, <<"tool_calls", "STOP">>,
          <<"*", "OTHER">>}
    ELSE IF from = "anthropic"
    THEN {<<"end_turn", "STOP">>, <<"max_tokens", "MAX_TOKENS">>,
          <<"tool_use", "STOP">>, <<"content_filter", "SAFETY">>,
          <<"*", "OTHER">>}
    ELSE IF to = "openai"
    THEN {<<"STOP", "stop">>, <<"MAX_TOKENS", "length">>,
          <<"SAFETY", "content_filter">>, <<"*", "stop">>}
    ELSE {<<"STOP", "end_turn">>, <<"MAX_TOKENS", "max_tokens">>,
          <<"SAFETY", "content_filter">>, <<"*", "end_turn">>}

(* The row of a table that applies to a value. *)
TableRow(table, value) ==
    IF \E row \in table : row[1] = value
    THEN CHOOSE row \in table : row[1] = value
    ELSE CHOOSE row \in table : row[1] = "*"

(* C20: finish reasons convert to and from the Google protocol by the      *)
(* fixed tables: OpenAI stop, length, content_filter, tool_calls to STOP,  *)
(* MAX_TOKENS, SAFETY, STOP, otherwise OTHER; Anthropic end_turn,          *)
(* max_tokens, tool_use, content_filter to STOP, MAX_TOKENS, STOP, SAFETY, *)
(* otherwise OTHER; Google STOP, MAX_TOKENS, SAFETY to OpenAI stop,        *)
(* length, content_filter and to Anthropic end_turn, max_tokens,           *)
(* content_filter, any other Google reason to stop and end_turn.           *)
C20_GoogleFinishReasons ==
    (fn.op = "finish_reason" /\ "google" \in {fn.from, fn.to}) =>
        fn.out = TableRow(GoogleTable(fn.from, fn.to), fn.in)[2]

(* A tool call finish is converted to the Google protocol. *)
C20_Witness ==
    /\ fn.op = "finish_reason"
    /\ fn.from = "openai"
    /\ fn.in = "tool_calls"
    /\ fn.out = "STOP"

(* The canonical finish reasons of a protocol. *)
CanonicalReasons(protocol) ==
    IF protocol = "openai" THEN {"stop", "length", "tool_calls", "content_filter"}
    ELSE IF protocol = "anthropic"
    THEN {"end_turn", "max_tokens", "tool_use", "content_filter"}
    ELSE {"STOP", "MAX_TOKENS", "SAFETY"}

(* C21 as stated: for every pair of protocols, mapping a canonical finish  *)
(* reason to the other protocol and back returns the original value.       *)
C21_Original ==
    (fn.op = "finish_reason" /\ fn.in \in CanonicalReasons(fn.from)) =>
        fn.back = fn.in

(* C21 amended: the round trip returns the original value for every pair   *)
(* of protocols and every canonical value, except a tool-call finish taken *)
(* through the Google protocol: OpenAI tool_calls and Anthropic tool_use   *)
(* become STOP there and come back as stop and end_turn.                   *)
C21_RoundTrip ==
    (fn.op = "finish_reason" /\ fn.in \in CanonicalReasons(fn.from)) =>
        IF fn.to = "google" /\ fn.in \in {"tool_calls", "tool_use"}
        THEN /\ fn.out = "STOP"
             /\ fn.back = (IF fn.from = "openai" THEN "stop" ELSE "end_turn")
        ELSE fn.back = fn.in

(* A tool-call finish goes from OpenAI to Anthropic and back. *)
C21_Witness ==
    /\ fn.op = "finish_reason"
    /\ fn.from = "openai"
    /\ fn.to = "anthropic"
    /\ fn.in = "tool_calls"
    /\ fn.out = "tool_use"
    /\ fn.back = "tool_calls"

(* C22: a non-streaming upstream call that fails because the provider      *)
(* timeout elapsed is answered HTTP 504, not the 500 of other upstream     *)
(* failures.                                                               *)
C22_TimeoutIs504 ==
    (http.handler # "none" /\ http.outcome = "timeout") => http.status = 504

(* The request in http went to /v1/chat/completions and was refused with   *)
(* the given message, before model resolution and without upstream call.   *)
RefusedBeforeResolution(message) ==
    /\ http.status = 400
    /\ http.type = "invalid_request_error"
    /\ http.message = message
    /\ http.resolved = NotResolved
    /\ http.upstream = <<>>

(* C23: a /v1/chat/completions request whose body does not parse, whose    *)
(* model is empty, or that has no messages is answered 400                 *)
(* invalid_request_error, the checks made in that order, with no model     *)
(* resolution and no upstream call; a model that cannot be resolved is     *)
(* answered 400 with no upstream call.                                     *)
C23_ValidationOrder ==
    http.handler = "ChatCompletions" =>
        /\ ~http.req.parses => RefusedBeforeResolution("Invalid request body")
        /\ (http.req.parses /\ http.req.model = "") =>
              RefusedBeforeResolution("Model is required")
        /\ (http.req.parses /\ http.req.model # "" /\ http.req.messages = 0) =>
              RefusedBeforeResolution("At least one message is required")
        /\ (http.req.parses /\ http.req.model # "" /\ http.req.messages > 0
              /\ http.resolved.err # "none") =>
              /\ http.status = 400
              /\ http.type = "invalid_request_error"
              /\ http.upstream = <<>>

(* A body that does not parse and so shows neither model nor messages. *)
C23_Witness ==
    /\ http.handler = "ChatCompletions"
    /\ ~http.req.parses
    /\ http.req.model = ""
    /\ http.req.messages = 0
    /\ RefusedBeforeResolution("Invalid request body")

(* The last event written to the client; NoEvent when none was. *)
NoEvent == SSE("none", 0, "", "")

LastWritten == IF sh.wire = <<>> THEN NoEvent ELSE sh.wire[Len(sh.wire)]

(* C24: a panic raised in the streaming handler is recovered inside it:    *)
(* the deferred function sends an SSE event named error, the upstream      *)
(* stream is closed all the same, and the handler returns in the ordinary  *)
(* way instead of passing the panic on to its caller.                      *)
C24_PanicRecovered ==
    sh.exit = "panic" =>
        /\ sh.pc \in {"recover", "deferred", "returned"}
        /\ sh.pc \in {"deferred", "returned"} =>
              /\ LastWritten.name = "error"
              /\ LastWritten.type = "internal_error"
              /\ sh.canFlush => sh.flushed = Len(sh.wire)
        /\ sh.pc = "returned" => sh.closed

(* A panic between the write of an upstream event and its flush, on a      *)
(* stream of which the client has seen an event: the error event follows   *)
(* the unflushed one, and the stream is closed.                            *)
C24_Witness ==
    /\ sh.exit = "panic"
    /\ sh.pc = "returned"
    /\ sh.closed
    /\ Len(sh.wire) = 3
    /\ sh.wire[1].id = 1
    /\ sh.wire[2].id = 2
    /\ sh.wire[3].name = "error"
    /\ sh.wire[3].type = "internal_error"
    /\ sh.flushed = 3

(* C25: every streamed event that carries a model field reaches the client *)
(* with the response model in it, never the upstream's model id, in the    *)
(* standard and in the beta streaming handler.                             *)
C25_ModelRewritten ==
    \A i \in 1..Len(sh.wire) :
        sh.wire[i].model # "" => sh.wire[i].model = RespModel

(* The exchange in http is a count_tokens request. *)
IsCountTokens ==
    http.handler \in {"anthropicCountTokensV1", "anthropicCountTokensBeta"}

CountStyle == cfg.providers[ProviderOf(http.resolved.svc)].style

(* C26 as stated: a count_tokens request makes an upstream call exactly    *)
(* when the provider's style is anthropic, and is otherwise answered with  *)
(* the locally computed count.                                             *)
C26_Original ==
    IsCountTokens =>
        /\ (http.upstream # <<>>) <=> (CountStyle = "anthropic")
        /\ CountStyle # "anthropic" =>
              (http.status = 200 /\ http.kind = "count_local")

(* C26: a count_tokens request whose body binds to the count-tokens        *)
(* parameters makes one upstream count-tokens call exactly when the        *)
(* provider's API style is anthropic; for any other style, the empty one   *)
(* included, it makes no upstream call and answers the locally computed    *)
(* input_tokens when the local count succeeds, 400 otherwise.  A body that *)
(* does not bind is answered 400 with no upstream call whatever the style. *)
C26_CountTokens ==
    IsCountTokens =>
        /\ http.req.binds =>
              /\ (Len(http.upstream) = 1) <=> (CountStyle = "anthropic")
              /\ (http.upstream = <<>>) <=> (CountStyle # "anthropic")
              /\ \A i \in 1..Len(http.upstream) :
                    http.upstream[i].api = "count_tokens"
              /\ CountStyle # "anthropic" =>
                    \/ http.status = 200 /\ http.kind = "count_local"
                    \/ http.status = 400
              /\ http.kind = "count_local" => CountStyle # "anthropic"
              /\ http.kind = "count_upstream" => CountStyle = "anthropic"
        /\ ~http.req.binds => (http.status = 400 /\ http.upstream = <<>>)

(* A provider with no style set: the count is computed locally. *)
C26_Witness ==
    /\ IsCountTokens
    /\ http.req.binds
    /\ CountStyle = ""
    /\ http.status = 200
    /\ http.kind = "count_local"
    /\ http.upstream = <<>>

(* The positions on the wire of the events sent with an empty name. *)
Unnamed == { i \in 1..Len(sh.wire) : sh.wire[i].name = "" }

(* C27: when the upstream stream of an Anthropic-style provider ends       *)
(* without error, the last event written to the client has an empty event  *)
(* name and a message_stop payload; it is written once, after every        *)
(* upstream event that was relayed, and flushed.                           *)
C27_FinalMessageStop ==
    (sh.exit = "normal" /\ sh.pc \in {"deferred", "returned"}) =>
        /\ LastWritten.name = ""
        /\ LastWritten.type = "message_stop"
        /\ LastWritten.id = 0
        /\ Unnamed = {Len(sh.wire)}
        /\ \A i \in 1..(Len(sh.wire) - 1) :
              sh.wire[i].id # 0 /\ sh.wire[i].name = sh.wire[i].type
        /\ Len(sh.wire) = sh.nread - Cardinality(sh.dropped) + 1
        /\ sh.flushed = Len(sh.wire)

(* The upstream's own message_stop event was relayed under its name, and   *)
(* the handler's unnamed one follows it.                                   *)
C27_Witness ==
    /\ sh.exit = "normal"
    /\ sh.pc = "returned"
    /\ Len(sh.wire) = 3
    /\ sh.wire[1].name = "message_start"
    /\ sh.wire[2].name = "message_stop"
    /\ sh.wire[2].id = 2
    /\ sh.wire[3] = FinishEvent

(* C28: every non-streaming upstream call is made under a deadline equal   *)
(* to the provider's timeout, every streaming upstream call under none.    *)
C28_Deadlines ==
    http # NoExchange =>
        \A i \in 1..Len(http.upstream) :
            http.upstream[i].deadline =
                IF http.upstream[i].stream THEN "none" ELSE "provider.Timeout"

(***************************************************************************)
(* Further claims about the stats store                                    *)
(***************************************************************************)

(* The service a key belongs to. *)
ServiceOfKey(k) == ServiceAt(CHOOSE ref \in ServiceRefs : KeyOf(ref) = k)

(* The time window a row gets when it is created for the service. *)
EffectiveTimeWindow(service) ==
    IF service.TimeWindow > 0 THEN service.TimeWindow ELSE 300

(* C29: a successful RecordUsage on a key that has no stored row creates   *)
(* the row and returns request_count = 1, window_request_count = 1, the    *)
(* window's tokens equal to the call's tokens, and time_window equal to    *)
(* the service's when that is positive, 300 otherwise.                     *)
C29_FirstUsage ==
    (RecordedOK /\ ret.pre = NoRow) =>
        /\ db[ret.key] # NoRow
        /\ ret.stats = toServiceStats(db[ret.key])
        /\ ret.stats.RequestCount = 1
        /\ ret.stats.WindowRequestCount = 1
        /\ ret.stats.WindowInputTokens = ret.in
        /\ ret.stats.WindowOutputTokens = ret.out
        /\ ret.stats.WindowTokensConsumed = ret.in + ret.out
        /\ ret.stats.TimeWindow = EffectiveTimeWindow(ServiceOfKey(ret.key))

(* The first usage of the service that sets no time window, recorded with  *)
(* tokens of both kinds some time after the start.                         *)
C29_Witness ==
    /\ RecordedOK
    /\ ret.pre = NoRow
    /\ ServiceOfKey(ret.key).TimeWindow = 0
    /\ db[ret.key].TimeWindow = 300
    /\ db[ret.key].WindowStart = now
    /\ now > 0
    /\ ret.in > 0
    /\ ret.out > 0

(* HydrateRules has just returned without error. *)
HydratedOK == ret.op = "HydrateRules" /\ ~ret.err

(* What HydrateRules does to the table: a row for every service, the rows  *)
(* that were there untouched, the new ones with the defaults filled in.    *)
HydratedRows ==
    \A k \in Keys :
        /\ db[k] # NoRow
        /\ ret.pre[k] # NoRow => db[k] = ret.pre[k]
        /\ ret.pre[k] = NoRow =>
              /\ db[k].TimeWindow = EffectiveTimeWindow(ServiceOfKey(k))
              /\ db[k].WindowStart # ZeroTime

C31_InsideWindow ==
    /\ RecordedOK
    /\ ret.pre # NoRow
    /\ Sub(now, ret.pre.WindowStart) < ret.pre.TimeWindow

(* C31: RecordUsage on an existing row with now - window_start <           *)
(* time_window leaves window_start and time_window as they were, raises    *)
(* request_count and window_request_count by 1, the window's input and     *)
(* output tokens by the call's (and the window total by their sum), and    *)
(* changes no other row of the store.                                      *)
C31_SameWindow ==
    C31_InsideWindow =>
        /\ db[ret.key].WindowStart = ret.pre.WindowStart
        /\ db[ret.key].TimeWindow = ret.pre.TimeWindow
        /\ db[ret.key].RequestCount = ret.pre.RequestCount + 1
        /\ db[ret.key].WindowRequestCount = ret.pre.WindowRequestCount + 1
        /\ db[ret.key].WindowInputTokens = ret.pre.WindowInputTokens + ret.in
        /\ db[ret.key].WindowOutputTokens = ret.pre.WindowOutputTokens + ret.out
        /\ db[ret.key].WindowTokensConsumed
              = ret.pre.WindowTokensConsumed + ret.in + ret.out
        /\ \A k \in Keys \ {ret.key} : db[k] = ret.table[k]

(* Usage with tokens recorded some time into a window that already counts  *)
(* a request, while the other service has a row of its own.                *)
C31_Witness ==
    /\ C31_InsideWindow
    /\ now > ret.pre.WindowStart
    /\ ret.pre.WindowRequestCount > 0
    /\ ret.in > 0
    /\ ret.out > 0
    /\ \E k \in Keys \ {ret.key} : db[k] # NoRow

(* C32: in every reachable state of the stats store, the token arguments  *)
(* being non-negative, each row has window_start no later than the current *)
(* time, and request_count, window_request_count, window_input_tokens,     *)
(* window_output_tokens and window_tokens_consumed are all >= 0.           *)
C32_RowsInRange ==
    \A k \in Keys :
        db[k] # NoRow =>
            /\ db[k].WindowStart <= now
            /\ db[k].RequestCount >= 0
            /\ db[k].WindowRequestCount >= 0
            /\ db[k].WindowInputTokens >= 0
            /\ db[k].WindowOutputTokens >= 0
            /\ db[k].WindowTokensConsumed >= 0

(* A row whose window was started anew by a call with tokens, after an     *)
(* earlier window; the clock has moved on since.                           *)
C32_Witness ==
    \E k \in Keys :
        /\ db[k] # NoRow
        /\ db[k].WindowStart > 0
        /\ db[k].WindowStart < now
        /\ db[k].RequestCount > db[k].WindowRequestCount
        /\ db[k].WindowInputTokens > 0
        /\ db[k].WindowOutputTokens > 0

(***************************************************************************)
(* Further claims about the transport pool                                 *)
(***************************************************************************)

(* The triple a call's transport is meant to be keyed by. *)
TripleOf(g) ==
    <<TrimRightSlash(tp.call[g].apiBase), tp.call[g].proxy, tp.call[g].oauthType>>

(* C33: two GetTransport calls with no Clear between them return the same  *)
(* transport if and only if their (base URL without trailing slashes,      *)
(* proxy URL, auth type) triples are equal.                                *)
C33_SameIffSameTriple ==
    \A g \in PoolDone, h \in PoolDone :
        tp.call[g].epoch = tp.call[h].epoch =>
            ((tp.call[g].transport = tp.call[h].transport)
                <=> (TripleOf(g) = TripleOf(h)))

(* The proxy strings for which createTransport is to fall back on a clone  *)
(* of the default transport, given how the SOCKS5 dialer came out.         *)
FallsBack(proxyURL, dial) ==
    \/ proxyURL = <<>>
    \/ \E i \in 1..Len(proxyURL) : proxyURL[i] = "%"
    \/ proxyURL[1] = "socks5:" /\ dial = "error"
    \/ proxyURL[1] \notin {"http:", "https:", "socks5:"}

(* C34: GetTransport returns a transport (never nil) for every proxy       *)
(* string; for an empty proxy, a proxy URL that does not parse, a SOCKS5   *)
(* dialer that cannot be built and a scheme other than http, https and     *)
(* socks5 the transport it creates is a clone of the default transport;    *)
(* and the transport is cached under the call's key like any other.        *)
C34_AlwaysATransport ==
    \A g \in PoolCallers :
        tp.call[g].pc = "done" =>
            /\ tp.call[g].transport # NoTransport
            /\ (tp.call[g].made # "no"
                  /\ FallsBack(tp.call[g].proxy, tp.call[g].made)) =>
                  tp.call[g].transport.kind = "default"
            /\ tp.call[g].endEpoch = tp.epoch =>
                  tp.transports[tp.call[g].key] = tp.call[g].transport

(* A call with a proxy of an unsupported scheme and a call whose proxy URL *)
(* does not parse have each created and cached a clone of the default      *)
(* transport.                                                              *)
C34_Witness ==
    \E g \in PoolCallers, h \in PoolCallers :
        /\ tp.call[g].pc = "done" /\ tp.call[h].pc = "done"
        /\ tp.call[g].made # "no" /\ tp.call[h].made # "no"
        /\ tp.call[g].proxy = <<"ftp:", "x">>
        /\ tp.call[h].proxy = <<"%">>
        /\ tp.call[g].transport.kind = "default"
        /\ tp.call[h].transport.kind = "default"
        /\ tp.call[g].transport # tp.call[h].transport
        /\ tp.transports[tp.call[g].key] = tp.call[g].transport
        /\ tp.transports[tp.call[h].key] = tp.call[h].transport

(***************************************************************************)
(* Claims about sequences of store calls                                   *)
(***************************************************************************)

(* In this step the request_count of the row under k does not go down. *)
CountKept(k) ==
    (db[k] # NoRow /\ db'[k] # NoRow) => db'[k].RequestCount >= db[k].RequestCount

(* In this step no stored row disappears, unless the step is ClearAll. *)
RowsKept ==
    \A k \in Keys :
        (db[k] # NoRow /\ db'[k] = NoRow) => ret'.op = "ClearAll"

(* C35 as stated: no call lowers the request_count of a row, and only      *)
(* ClearAll removes counts.                                                *)
C35_Original ==
    [][RowsKept /\ \A k \in Keys : CountKept(k)]_vars

(* C35: RecordUsage and HydrateRules never lower the request_count of a    *)
(* row; UpsertFromService replaces the row's request_count by that of the  *)
(* service's own Stats, whatever the row held; rows disappear only by      *)
(* ClearAll.                                                               *)
C35_CountsKept ==
    [][/\ RowsKept
       /\ ret'.op # "UpsertFromService" => \A k \in Keys : CountKept(k)
       /\ (ret'.op = "UpsertFromService" /\ ~ret'.err) =>
             /\ db'[ret'.key].RequestCount = svcStats'[ret'.key].RequestCount
             /\ \A k \in Keys \ {ret'.key} : CountKept(k)]_vars

(* A row that has counted three requests over two windows: the count went  *)
(* on through the reset of the window.                                     *)
C35_Witness ==
    /\ RecordedOK
    /\ ret.pre # NoRow
    /\ db[ret.key].RequestCount = 3
    /\ db[ret.key].WindowRequestCount < 3
    /\ db[ret.key].WindowStart > 0

(* C36: a Snapshot that reads the table returns one entry per persisted    *)
(* row: rows with different (rule_uuid, provider, model) never share a     *)
(* key, so the snapshot has as many entries as the table has rows.         *)
C36_OneEntryPerRow ==
    (fn.op = "Snapshot" /\ ~fn.findFails) =>
        Cardinality(fn.out) = Cardinality(fn.rows)

(* RecordUsage has just returned an error. *)
RecordFailed ==
    /\ ret.op = "RecordUsage"
    /\ ret.key # <<>>
    /\ ret.err

(* C37: when RecordUsage fails, on a lookup error other than not-found or  *)
(* on a failing save, it returns the error with zero-valued stats, and the *)
(* persisted rows are exactly what they were before the call.              *)
C37_FailureChangesNothing ==
    RecordFailed =>
        /\ ret.stats = ZeroStats
        /\ db = ret.table
        /\ db[ret.key] = ret.pre

(* A call with tokens fails on a row that has usage recorded. *)
C37_Witness ==
    /\ RecordFailed
    /\ ret.pre # NoRow
    /\ ret.pre.RequestCount > 0
    /\ ret.in > 0
    /\ db[ret.key] = ret.pre

(* HydrateRules has just returned from a call that directly followed a     *)
(* HydrateRules that returned nil.                                         *)
HydratedAgain == ret.op = "HydrateRules" /\ ret.again

(* C38 as stated: the second call creates no row, changes no row and       *)
(* returns no error.                                                       *)
C38_Original ==
    HydratedAgain => (db = ret.pre /\ ~ret.err)

(* C38: a second HydrateRules with the same rules, with no other store     *)
(* operation in between, creates no row and changes no row; it returns no  *)
(* error when its read of the rows succeeds, and the read's error          *)
(* otherwise.                                                              *)
C38_Idempotent ==
    HydratedAgain =>
        /\ db = ret.pre
        /\ ret.err = ret.findErr

(* A second call has returned nil over rows of which one has usage. *)
C38_Witness ==
    /\ HydratedAgain
    /\ ~ret.err
    /\ \A k \in Keys : db[k] # NoRow
    /\ \E k \in Keys : db[k].RequestCount > 0

(* C39: the scenario recorder stores a captured response body as the       *)
(* parsed JSON when the bytes parse as a JSON object and as the raw string *)
(* otherwise, which is what it stores for a request body of the same       *)
(* bytes.                                                                  *)
C39_ResponseBodyRule ==
    (fn.op = "RecordScenario" /\ fn.captured) =>
        LET u == jsonUnmarshal(fn.respBytes)
        IN /\ fn.resp = IF u.err \/ u.value.nil THEN RawMap(fn.respBytes)
                        ELSE u.value
           /\ (fn.respBytes = fn.reqBytes /\ fn.reqBytes # "") =>
                 fn.resp = fn.req

====
